---- MODULE Spec2Model ----
(***************************************************************************)
(* A state-machine model of the LSVD userspace block device:               *)
(*   - the write cache (src/write_cache.cc): journal ring, group commit,   *)
(*     forward/reverse maps, eviction, checkpoint, crash and log replay;   *)
(*   - the write-window throttle (get_room / release_room / flush);        *)
(*   - the cache read path (async_read and the wcache_read loop);          *)
(*   - the translation layer's batches, workers and reads (lsvd_rbd.cc).   *)
(* Sector addresses are 512-byte sectors, page addresses 4096-byte pages.  *)
(***************************************************************************)
EXTENDS Integers, Sequences, FiniteSets, TLC

(* ------------------------------ bounds -------------------------------- *)
\* pages of the journal ring [Base, Limit)
RingPages == 6
\* journal pages in a run with crashes and checkpoints
RingPagesCrash == 5
\* client writes submitted over a run
MaxJobs == 5
\* jobs submitted in a run with crashes and checkpoints
MaxJobsCrash == 3
\* writev calls in a run with the checkpoint thread and no crash
MaxJobsCkpt == 4
\* crash / restart cycles over a run
MaxCrashes == 1
\* checkpoints started over a run
MaxCkpts == 1
\* cfg->wcache_batch, the group-commit threshold (requests)
WriteBatch == 2
\* journal records sent in a run where notify keeps sending
MaxRecords == 5
\* async_read calls made while the write path runs
MaxRaceReads == 1
\* threads calling get_room / release_room / flush
MaxCallers == 2
\* get_room calls a caller may hold unreleased
MaxHeld == 2
\* reads and the maps they meet lie in the sectors 0 .. MaxReadSector
MaxReadSector == 4
\* translate writev calls over a run
MaxXlWrites == 3
\* sectors a batch buffer holds (BATCH_SIZE, scaled down)
BatchMax == 2
\* translate checkpoint() calls over a run
MaxXlCkpts == 1
\* restarts of the translation layer over a run
MaxLockThreads == 3
MaxXlInits == 1

\* read cache: slots (super->units), 4 KiB pages per slot (the code asserts
\* unit_size == 128 sectors, 16 pages), read calls and evictions over a run
RcUnits == 2
UnitPages == 2
MaxRcReads == 2
EvUnits == 48
MaxEvicts == 1

(* ------------------------- program constants -------------------------- *)
\* sectors per 4 KiB page: plba = (page+1) * 8, pages = sectors / 8
SectorsPerPage == 8
\* worker threads of the translation layer: init(name, 2, true) in rbd_open
XlWorkers == 2
\* page of the write-cache superblock
SuperBlkno == 0
MetaBase == SuperBlkno + 1
MetaLimit == MetaBase + 2
Base == MetaLimit
\* n_pages = super->limit - super->base (constructor, line 685): the size the
\* superblock gives the journal; it never changes
VARIABLE ring_pages

Limit == Base + ring_pages

RingRange == Base .. (Limit - 1)
JobIds == 1 .. MaxJobs
Callers == 1 .. MaxCallers
\* object sequence numbers: one batch per write at most, one per checkpoint
XlSeqs == 1 .. (MaxXlWrites + MaxXlCkpts)
\* the sectors translate writes and reads touch: units of one sector
XlSectors == 0 .. 1
\* LBAs (sectors) the clients write: LBA 0 and the LBA that equals the first
\* payload sector of the journal
LBAs == {0, (Base + 1) * SectorsPerPage}
Lens == {SectorsPerPage}
VSectors == 0 .. ((Base + 2) * SectorsPerPage - 1)
SsdSectors == (Base * SectorsPerPage) .. (Limit * SectorsPerPage - 1)

Nil == <<0, 0>>
HdrBytes == <<0, 1>>
ZeroBytes == <<0, 2>>

Min(a, b) == IF a < b THEN a ELSE b
Max(a, b) == IF a > b THEN a ELSE b
div_round_up(n, m) == (n + m - 1) \div m

(* --------------------------- extent map ------------------------------- *)
\* An extent map is a set of records [base, limit, ptr]: the half-open range
\* [base, limit) maps to ptr, ptr+1, ...; the ranges are disjoint.
Ext(b, l, p) == [base |-> b, limit |-> l, ptr |-> p]

Overlaps(e, b, l) == e.base < l /\ e.limit > b

\* iterator->vals(lo, hi): the extent clipped to the window, ptr advanced
Vals(e, lo, hi) ==
    LET b == Max(e.base, lo)
    IN  Ext(b, Min(e.limit, hi), e.ptr + (b - e.base))

ExtTrim(m, b, l) ==
    {e \in m : ~Overlaps(e, b, l)}
      \cup {Ext(e.base, b, e.ptr) : e \in {x \in m : Overlaps(x, b, l) /\ x.base < b}}
      \cup {Ext(l, e.limit, e.ptr + (l - e.base)) :
                e \in {x \in m : Overlaps(x, b, l) /\ x.limit > l}}

\* the extents an update of [b, l) displaces, clipped to [b, l)
ExtDisplaced(m, b, l) == {Vals(e, b, l) : e \in {x \in m : Overlaps(x, b, l)}}

ExtUpdate(m, b, l, p) == ExtTrim(m, b, l) \cup {Ext(b, l, p)}

\* lookup(base): the extents whose limit > base; the iterator starts at the
\* one with the smallest base
ExtFrom(m, b) == {e \in m : e.limit > b}
ExtLookup(m, b) == CHOOSE e \in ExtFrom(m, b) : \A x \in ExtFrom(m, b) : e.base <= x.base

\* the value a map gives sector s, Nil-like -1 when unmapped
ExtAt(m, s) ==
    IF \E e \in m : e.base <= s /\ s < e.limit
    THEN LET e == CHOOSE x \in m : x.base <= s /\ s < x.limit
         IN  e.ptr + (s - e.base)
    ELSE -1

Disjoint(m) == \A e1, e2 \in m : e1 # e2 => ~Overlaps(e1, e2.base, e2.limit)

RECURSIVE SetToSeq(_)
SetToSeq(S) ==
    IF S = {} THEN <<>>
    ELSE LET x == CHOOSE y \in S : \A z \in S : y.base <= z.base
         IN  <<x>> \o SetToSeq(S \ {x})

(* ----------------------- write cache: ring state ---------------------- *)
\* The operators below act on a record S of the fields guarded by the mutex m:
\*   next, oldest     super->next, super->oldest
\*   cb               cache_blocks[], indexed by page (the code indexes page - base)
\*   map, rmap        forward map (lba -> plba) and reverse map (plba -> lba)
\*   outstanding      (page, len) of the records whose SSD write is in flight
\*   sequence         next journal sequence number
\*   fault            "none", or the assertion / out-of-bounds access that stopped the process
\*   rj, evj          history: the jobs of the record at each page, the jobs whose record was evicted
\*   oob              history: a cache_blocks cell outside the array was written
\* A cell's n_pages is read only for HDR and PAD cells; it is kept 0 for the others.

NoneCell == [type |-> "NONE", n_pages |-> 0]
Cell(t, n) == [type |-> t, n_pages |-> n]

Fault(S, tag) == [S EXCEPT !.fault = tag]

\* evict(), line 334: skip the leading NONE cells of [page, limit)
FirstUsed(cb, page, limit) ==
    IF \E p \in page .. (limit - 1) : cb[p].type # "NONE"
    THEN CHOOSE p \in page .. (limit - 1) :
            /\ cb[p].type # "NONE"
            /\ \A q \in page .. (p - 1) : cb[q].type = "NONE"
    ELSE limit

RECURSIVE TrimAll(_, _)
TrimAll(m, hits) ==
    IF hits = {} THEN m
    ELSE LET h == CHOOSE x \in hits : TRUE
         IN  TrimAll(ExtTrim(m, h.ptr, h.ptr + (h.limit - h.base)), hits \ {h})

\* evict(), lines 356-361: the forward-map trims of one journal record
EvictTrimMap(S, s_base, s_limit) ==
    TrimAll(S.map, {Vals(e, s_base, s_limit) : e \in {x \in S.rmap : Overlaps(x, s_base, s_limit)}})

\* evict(), lines 352-372: chip away the oldest records until oldest >= limit
RECURSIVE EvictLoop(_, _, _)
EvictLoop(S, o, limit) ==
    IF o >= limit
    THEN IF o > Limit THEN Fault(S, "assert_oldest_le_limit")
         ELSE [S EXCEPT !.oldest = IF o = Limit THEN Base ELSE o]
    ELSE IF S.cb[o].type \notin {"HDR", "PAD"} THEN Fault(S, "evict_not_a_record")
    ELSE LET len == S.cb[o].n_pages
             s_base == o * SectorsPerPage
             s_limit == s_base + len * SectorsPerPage
         IN  IF len <= 0 \/ o + len > Limit THEN Fault(S, "evict_bad_len")
             ELSE EvictLoop([S EXCEPT !.map = EvictTrimMap(S, s_base, s_limit),
                                      !.rmap = ExtTrim(S.rmap, s_base, s_limit),
                                      !.cb = [p \in RingRange |->
                                                IF p >= o /\ p < o + len THEN NoneCell ELSE S.cb[p]],
                                      !.evj = S.evj \cup S.rj[o]],
                            o + len, limit)

\* write_cache_impl::evict(page, limit)
Evict(S, page, limit) ==
    IF S.fault # "none" THEN S
    ELSE IF page >= limit THEN S
    ELSE IF page < Base \/ limit > Limit THEN Fault(S, "cache_blocks_out_of_bounds")
    ELSE LET p == FirstUsed(S.cb, page, limit)
         IN  IF p = limit THEN S
             ELSE IF p # S.oldest THEN Fault(S, "assert_page_eq_oldest")
             ELSE IF S.cb[p].type = "PAD"
                  THEN [S EXCEPT !.cb[p] = NoneCell, !.oldest = Base]
             ELSE IF S.cb[p].type # "HDR" THEN Fault(S, "assert_oldest_is_hdr")
             ELSE EvictLoop(S, p, limit)

\* an allocate whose next is not wrapped to base at limit
AllocateDoneNoWrap(S2, val, n, pad, n_pad) ==
    [S |-> [S2 EXCEPT !.next = val + n], val |-> val, pad |-> pad, n_pad |-> n_pad]

\* allocate(), lines 392-398, once the PAD decision is made: S1 is the state
\* with next at the place of the new record
AllocateDone(S2, val, n, pad, n_pad) ==
    [S |-> [S2 EXCEPT !.next = IF val + n = Limit THEN Base ELSE val + n],
     val |-> val, pad |-> pad, n_pad |-> n_pad]

AllocateAt(S1, n, pad, n_pad) ==
    AllocateDone(Evict(S1, S1.next, S1.next + n), S1.next, n, pad, n_pad)

\* write_cache_impl::allocate(n, pad, n_pad); the subtraction of line 385 is
\* unsigned, so a next beyond limit does not pad
Allocate(S, n) ==
    IF S.next <= Limit /\ Limit - S.next < n
    THEN AllocateAt([Evict(S, S.next, Limit) EXCEPT !.next = Base], n, S.next, Limit - S.next)
    ELSE AllocateAt(S, n, 0, 0)

RECURSIVE SumLen(_, _)
SumLen(w, J) == IF w = <<>> THEN 0 ELSE J[Head(w)].len + SumLen(Tail(w), J)

NoReq == [w |-> <<>>, page |-> 0, n |-> 0, pad |-> 0, n_pad |-> 0, seq |-> 0,
          pad_seq |-> 0, plba |-> 0, pad_done |-> TRUE, data_done |-> TRUE,
          pc |-> "none", k |-> 0]

\* send_writes(), lines 733-739: the PAD's cache_blocks cells
MarkPad(E, pad) ==
    IF E.fault # "none" THEN E
    ELSE IF pad >= Limit THEN Fault(E, "cache_blocks_out_of_bounds")
    ELSE [E EXCEPT !.cb = [p \in RingRange |->
                              IF p = pad THEN Cell("PAD", Limit - pad)
                              ELSE IF p > pad THEN NoneCell ELSE E.cb[p]]]

\* send_writes(), lines 741-743: the new record's cache_blocks cells
MarkRecord(S1, page, pages) ==
    IF S1.fault # "none" THEN S1
    ELSE [S1 EXCEPT !.cb = [p \in RingRange |->
                              IF p = page THEN Cell("HDR", pages + 1)
                              ELSE IF p > page /\ p <= page + pages THEN Cell("DATA", 0)
                              ELSE S1.cb[p]]]

\* send_writes(), lines 733-744
MarkBlocks(S, page, pages, pad) ==
    IF pad # 0 THEN MarkRecord(MarkPad(Evict(S, pad, Limit), pad), page, pages)
    ELSE MarkRecord(S, page, pages)

\* the wcache_write_req constructor, lines 185-234: sequence numbers are taken
\* by mk_header (PAD first), the pairs are recorded in outstanding
NewReq(S1, w, pages, A, seq0) ==
    IF S1.fault # "none" THEN [S |-> S1, req |-> NoReq]
    ELSE [S |-> [S1 EXCEPT
                   !.outstanding =
                       (IF A.pad # 0 THEN Append(S1.outstanding, <<A.pad, A.n_pad>>)
                        ELSE S1.outstanding) \o <<<<A.val, pages + 1>>>>,
                   !.sequence = IF A.pad # 0 THEN seq0 + 2 ELSE seq0 + 1,
                   !.rj = [p \in RingRange |->
                             IF p = A.val THEN {w[i] : i \in 1 .. Len(w)} ELSE S1.rj[p]]],
          req |-> [w |-> w, page |-> A.val, n |-> pages + 1, pad |-> A.pad,
                   n_pad |-> A.n_pad,
                   seq |-> IF A.pad # 0 THEN seq0 + 1 ELSE seq0,
                   pad_seq |-> IF A.pad # 0 THEN seq0 ELSE 0,
                   plba |-> (A.val + 1) * SectorsPerPage,
                   pad_done |-> (A.pad = 0), data_done |-> FALSE,
                   pc |-> "io", k |-> 1]]

SendWritesAt(w, pages, A, seq0) ==
    IF A.S.fault # "none" THEN [S |-> A.S, req |-> NoReq]
    ELSE NewReq(MarkBlocks(A.S, A.val, pages, A.pad), w, pages, A, seq0)

SendWritesPages(S, w, pages) == SendWritesAt(w, pages, Allocate(S, pages + 1), S.sequence)

\* send_writes() with the constructor of wcache_write_req: w is the work queue
\* taken over, J gives each job's lba and len.  Returns the new ring state and
\* the request in flight.
SendWrites(S, w, J) == SendWritesPages(S, w, div_round_up(SumLen(w, J), SectorsPerPage))

(* --------------------------- state variables -------------------------- *)
VARIABLES
    wc,         \* the in-memory write cache: the fields guarded by the mutex m
    work,       \* write_cache_impl::work, the queue of jobs not yet dispatched
    reqs,       \* the wcache_write_req objects alive
    job,        \* per job: lba, len, its progress and history counters
    njobs,      \* jobs submitted so far
    ssd_super,  \* the superblock on SSD (page SuperBlkno)
    ssd_meta,   \* the two halves of the metadata region on SSD
    ssd_hdr,    \* per journal page on SSD: the record header it holds, if any
    ssd_data,   \* per journal sector on SSD: the payload bytes it holds
    ckpt,       \* the locals of the write_checkpoint call in progress
    be_data,    \* what the translation layer was given by writev, per sector
    mode,       \* "run": constructed; "down": crashed, not yet restarted
    crashes,    \* crashes so far
    nckpt,      \* checkpoints started so far
    room,       \* callers of get_room / release_room / flush (throttle model)
    rd,         \* the locals of the wcache_read call in progress
    xl,         \* the translation layer: class translate of lsvd_rbd.cc
    rc          \* the read cache: class read_cache of lsvd_rbd.cc

vars == <<wc, work, reqs, job, njobs, ssd_super, ssd_meta, ssd_hdr, ssd_data,
          ckpt, be_data, mode, crashes, nckpt, room, rd, xl, ring_pages, rc>>

\* max_write_pages = n_pages / 2 (constructor, line 693)
MaxWritePages == ring_pages \div 2

NoHdr == [type |-> "NONE", seq |-> 0, len |-> 0, extents |-> <<>>]
\* err records that an NVMe write of the job's record (its PAD included) failed
NoJob == [lba |-> 0, len |-> 0, st |-> "none", disp |-> 0, fwd |-> 0, fired |-> 0,
          before |-> {}, plba |-> 0, err |-> FALSE]
NoCkpt == [pc |-> "idle", blockno |-> 0, e_buf |-> {}, l_buf |-> {},
           super_copy |-> [seq |-> 0, next |-> 0, oldest |-> 0, map_start |-> 0,
                           map_entries |-> 0, len_entries |-> 0]]
NoRoom == [pc |-> "idle", sectors |-> 0, held |-> <<>>, flushed |-> FALSE]
NoRead == [pc |-> "idle", offset |-> 0, len |-> 0, buf |-> <<>>, at |-> 0, n |-> 0,
           arg |-> [offset |-> 0, len |-> 0],
           ret |-> [skip |-> 0, read |-> 0, plba |-> -1], want |-> <<>>]

\* the superblock of a freshly formatted cache device
FreshSuper == [seq |-> 1, next |-> Base, oldest |-> Base, map_start |-> 0,
               map_entries |-> 0, len_entries |-> 0]

\* the in-memory state the constructor starts from, given the superblock
\* read; write_batch is cfg->wcache_batch (line 694)
FreshWc(sup, rj, evj) ==
    [next |-> sup.next, oldest |-> sup.oldest,
     cb |-> [p \in RingRange |-> NoneCell],
     map |-> {}, rmap |-> {}, outstanding |-> <<>>, sequence |-> sup.seq,
     fault |-> "none", rj |-> rj, evj |-> evj,
     outstanding_writes |-> 0, next_acked_page |-> 0, map_dirty |-> FALSE,
     ckpt_in_progress |-> FALSE, total_write_pages |-> 0,
     map_start |-> sup.map_start, map_entries |-> sup.map_entries,
     len_entries |-> sup.len_entries, next0 |-> sup.next, oob |-> FALSE,
     write_batch |-> WriteBatch]

\* an object_info entry that does not exist, or that operator[] has just made
NoInfo == [type |-> "none", live |-> 0]

\* class translate after init() on a volume without data objects; nocache is
\* a member the constructor (lines 466-470) leaves unset
\*   batch_seq, cur    the global batch_seq, the seq of current_batch (0: NULL)
\*   bufs, entries     each batch's buffer and data_map entries
\*   in_mem, map, q    in_mem_objects, the object map, the workers' queue
\*   wk                where the worker that took a batch stands
\*   running, idle     workers.running, the worker threads not holding a batch
\*   ck                the seq checkpoint() took, until write_checkpoint has run
\*   objs, otype, ohdr, ockmap   the backend's numbered objects: bytes, type,
\*                     the data_map of a DATA header, the map of a CKPT
\*   super_ckpts       the checkpoint list of the super object
\*   info, ockobjs     object_info (type and live sectors; a negative live
\*                     stands for the wrapped uint32_t 2^32 + live), and the
\*                     object list of a CKPT
\*   history: nwrites, last (the bytes last written to each sector), ck_last
\*   (last when checkpoint() was called), handed (seqs handed out since
\*   init), dropped (batches taken from the queue and never written),
\*   empty_front (front() was called on the empty queue), nck, ninit
\* the threads that call into the translation layer at the same time
XlThreads == 1 .. MaxLockThreads

NoXlate == [nocache |-> FALSE, batch_seq |-> 1, cur |-> 0,
            bufs |-> [b \in XlSeqs |-> <<>>], entries |-> [b \in XlSeqs |-> <<>>],
            in_mem |-> {}, map |-> {}, q |-> <<>>,
            wk |-> [b \in XlSeqs |-> "none"], objs |-> [b \in XlSeqs |-> <<>>],
            nwrites |-> 0, last |-> [s \in XlSectors |-> Nil],
            running |-> TRUE, idle |-> XlWorkers, ck |-> 0,
            otype |-> [b \in XlSeqs |-> "none"], ohdr |-> [b \in XlSeqs |-> <<>>],
            ockmap |-> [b \in XlSeqs |-> {}], super_ckpts |-> <<>>,
            ck_last |-> [s \in XlSectors |-> Nil], handed |-> <<>>,
            dropped |-> {}, empty_front |-> FALSE, nck |-> 0, ninit |-> 0,
            info |-> [b \in XlSeqs |-> NoInfo],
            ockobjs |-> [b \in XlSeqs |-> [o \in XlSeqs |-> NoInfo]],
            last_ckpt |-> 0, ock |-> [b \in XlSeqs |-> 0], ck_entries |-> {},
            lk |-> [t \in XlThreads |-> [op |-> "idle", pc |-> 0]]]

\* read cache: unit_sectors = super->unit_size (constructor, line 945)
unit_sectors == UnitPages * SectorsPerPage
RcSlots == 0 .. (RcUnits - 1)
RcThreads == 1 .. 2
\* the backend objects the read cache reads: objects 1 and 2, each a header
\* page and one unit of data, so each spans a whole unit and a part of one
RcObjs == 1 .. 2
RcObjSectors == SectorsPerPage + unit_sectors
RcObjBlks == [obj : RcObjs, offset : 0 .. (div_round_up(RcObjSectors, unit_sectors) - 1)]
NoObjBlk == [obj |-> 0, offset |-> 0]
\* the bytes of sector offset of a backend object
ObjBytes(obj, offset) == <<obj, offset>>
\* the object map the read cache is given (omap): LBAs [0, unit_sectors) in
\* object 1 and the next unit_sectors in object 2, both after the header
RcPtr(obj, offset) == obj * (2 * RcObjSectors) + offset
PtrObj(ptr) == ptr \div (2 * RcObjSectors)
PtrOffset(ptr) == ptr % (2 * RcObjSectors)
Omap == {Ext(0, unit_sectors, RcPtr(1, SectorsPerPage)),
         Ext(unit_sectors, 2 * unit_sectors, RcPtr(2, SectorsPerPage))}

\* one thread inside read_cache::read: its locals, and those of the add it is in
NoRcThread == [pc |-> "idle", arg |-> [lba |-> 0, sectors |-> 0],
               lba |-> 0, len |-> 0, buf |-> <<>>, exts |-> <<>>,
               base |-> 0, limit |-> 0, ptr |-> 0, to_add |-> <<>>,
               n |-> 0, blk_offset |-> 0, blk_top_offset |-> 0,
               ob |-> NoObjBlk, cache_blk |-> -1, mask |-> {}]

\* class read_cache after the constructor (lines 935-972) on an empty cache:
\* every slot free, in the order the constructor pushes them
NoRcache == [map |-> [ob \in RcObjBlks |-> -1],
             flat_map |-> [j \in RcSlots |-> NoObjBlk],
             bitmap |-> [j \in RcSlots |-> {}],
             free_blks |-> [i \in 1 .. RcUnits |-> i - 1],
             busy |-> [j \in RcSlots |-> FALSE],
             map_dirty |-> FALSE,
             ssd |-> [j \in RcSlots |-> [k \in 0 .. (unit_sectors - 1) |-> Nil]],
             th |-> [t \in RcThreads |-> NoRcThread],
             nreads |-> 0, nevicts |-> 0, m |-> 0,
             ev |-> [running |-> TRUE, pc |-> "wait", free |-> EvUnits, dirty |-> FALSE]]

\* everything but the in-memory write cache and the translation layer
InitDevice(n) ==
    /\ ring_pages = n
    /\ work = <<>>
    /\ reqs = {}
    /\ job = [j \in JobIds |-> NoJob]
    /\ njobs = 0
    /\ ssd_super = FreshSuper
    /\ ssd_meta = [b \in {MetaBase, MetaBase + 1} |-> [map |-> {}, lens |-> {}]]
    /\ ssd_hdr = [p \in RingRange |-> NoHdr]
    /\ ssd_data = [s \in SsdSectors |-> Nil]
    /\ ckpt = NoCkpt
    /\ be_data = [s \in VSectors |-> Nil]
    /\ mode = "run"
    /\ crashes = 0
    /\ nckpt = 0
    /\ room = [c \in Callers |-> NoRoom]
    /\ rd = NoRead
    /\ rc = NoRcache

InitRing(n) ==
    /\ InitDevice(n)
    /\ wc = FreshWc(FreshSuper, [p \in RingRange |-> {}], {})
    /\ xl = NoXlate

Init == InitRing(RingPages)

InitCrash == InitRing(RingPagesCrash)

Running == mode = "run" /\ wc.fault = "none"

(* ------------------------ write cache: throttle ----------------------- *)
\* a get_room that forgets the pages it is about to add
RoomAvailableNoPages(S, sectors) == S.total_write_pages <= MaxWritePages

\* get_room, lines 305-308: the condition the caller waits for
RoomAvailable(S, sectors) ==
    S.total_write_pages + sectors \div SectorsPerPage <= MaxWritePages

\* get_room, line 309
get_room(S, sectors) ==
    [S EXCEPT !.total_write_pages = @ + sectors \div SectorsPerPage]

\* release_room, lines 313-315
release_room(S, sectors) ==
    [S EXCEPT !.total_write_pages = @ - sectors \div SectorsPerPage]

(* --------------------- write cache: group commit ---------------------- *)
SeqSet(w) == {w[i] : i \in 1 .. Len(w)}

\* the state after send_writes(lk) took over the queue w: the request is in
\* flight and outstanding_writes is incremented (line 747)
CountSent(R) ==
    IF R.S.fault # "none" THEN R
    ELSE [R EXCEPT !.S.outstanding_writes = @ + 1]

Dispatch(S, w, J) == CountSent(SendWrites(S, w, J))

\* sectors of the jobs queued in w ahead of job j
RECURSIVE OffsetIn(_, _, _)
OffsetIn(w, J, j) ==
    IF w = <<>> \/ Head(w) = j THEN 0 ELSE J[Head(w)].len + OffsetIn(Tail(w), J, j)

MarkSent(J, w, R) ==
    [j \in JobIds |-> IF j \in SeqSet(w) /\ R.S.fault = "none"
                      THEN [J[j] EXCEPT !.st = "sent", !.disp = @ + 1,
                                        !.plba = R.req.plba + OffsetIn(w, J, j)]
                      ELSE J[j]]

\* the caller's side of send_writes(lk): the queue is taken over and the
\* request R.req is in flight next to the requests in keep
TakeWork(R, J, w, keep) ==
    /\ wc' = R.S
    /\ work' = <<>>
    /\ reqs' = IF R.S.fault = "none" THEN keep \cup {R.req} ELSE keep
    /\ job' = MarkSent(J, w, R)

\* a writev that sends only when nothing is outstanding, and lets the queue
\* grow to write_batch and beyond
WritevNoBatchSend(lba, len, maxj) ==
    LET id == njobs + 1
        J1 == [job EXCEPT ![id] = [NoJob EXCEPT !.lba = lba, !.len = len, !.st = "queued",
                                      !.before = {j \in JobIds : job[j].st = "done"}]]
        w1 == Append(work, id)
        S1 == get_room(wc, len)
    IN  /\ Running
        /\ njobs < maxj
        /\ RoomAvailable(wc, len)
        /\ njobs' = id
        /\ IF wc.outstanding_writes = 0
           THEN TakeWork(Dispatch(S1, w1, J1), J1, w1, reqs)
           ELSE /\ wc' = S1
                /\ work' = w1
                /\ reqs' = reqs
                /\ job' = J1
        /\ UNCHANGED <<ssd_super, ssd_meta, ssd_hdr, ssd_data, ckpt, be_data,
                       mode, crashes, nckpt, room, rd, xl, ring_pages, rc>>

\* write_cache_impl::writev, preceded by the caller's get_room(sectors)
Writev(lba, len, maxj) ==
    LET id == njobs + 1
        J1 == [job EXCEPT ![id] = [NoJob EXCEPT !.lba = lba, !.len = len, !.st = "queued",
                                      !.before = {j \in JobIds : job[j].st = "done"}]]
        w1 == Append(work, id)
        S1 == get_room(wc, len)
    IN  /\ Running
        /\ njobs < maxj
        /\ RoomAvailable(wc, len)
        /\ njobs' = id
        /\ IF wc.outstanding_writes = 0 \/ Len(w1) >= wc.write_batch
           THEN TakeWork(Dispatch(S1, w1, J1), J1, w1, reqs)
           ELSE /\ wc' = S1
                /\ work' = w1
                /\ reqs' = reqs
                /\ job' = J1
        /\ UNCHANGED <<ssd_super, ssd_meta, ssd_hdr, ssd_data, ckpt, be_data,
                       mode, crashes, nckpt, room, rd, xl, ring_pages, rc>>

\* a flush thread that only sends full batches
FlushOnlyFullBatch == Running /\ wc.outstanding_writes = 0 /\ Len(work) >= wc.write_batch

\* flush_thread, line 436: the test made at each wake-up
FlushThreadEnabled == Running /\ wc.outstanding_writes = 0 /\ Len(work) > 0

\* flush_thread, lines 436-437
FlushThread ==
    /\ FlushThreadEnabled
    /\ TakeWork(Dispatch(wc, work, job), job, work, reqs)
    /\ UNCHANGED <<njobs, ssd_super, ssd_meta, ssd_hdr, ssd_data, ckpt, be_data,
                   mode, crashes, nckpt, room, rd, xl, ring_pages, rc>>

\* the bytes of the record's payload at sector offset off: (job, sector within job)
RECURSIVE PayloadAt(_, _, _)
PayloadAt(w, J, off) ==
    IF w = <<>> THEN Nil
    ELSE IF off < J[Head(w)].len THEN <<Head(w), off>>
    ELSE PayloadAt(Tail(w), J, off - J[Head(w)].len)

RECURSIVE Extents(_, _)
Extents(w, J) ==
    IF w = <<>> THEN <<>>
    ELSE <<[lba |-> J[Head(w)].lba, len |-> J[Head(w)].len]>> \o Extents(Tail(w), J)

\* the NVMe write of the PAD header page (r_pad), constructor lines 192-203
NvmePadWrite(r) ==
    /\ Running
    /\ r \in reqs /\ r.pc = "io" /\ ~r.pad_done
    /\ ssd_hdr' = [ssd_hdr EXCEPT ![r.pad] =
                      [type |-> "PAD", seq |-> r.pad_seq, len |-> r.n_pad, extents |-> <<>>]]
    /\ ssd_data' = [s \in SsdSectors |->
                      IF s \div SectorsPerPage = r.pad THEN HdrBytes ELSE ssd_data[s]]
    /\ reqs' = (reqs \ {r}) \cup {[r EXCEPT !.pad_done = TRUE]}
    /\ UNCHANGED <<wc, work, job, njobs, ssd_super, ssd_meta, ckpt, be_data,
                   mode, crashes, nckpt, room, rd, xl, ring_pages, rc>>

\* the NVMe write of header page and payload (r_data), constructor lines 205-233
NvmeDataWrite(r) ==
    LET sectors == SumLen(r.w, job)
    IN  /\ Running
        /\ r \in reqs /\ r.pc = "io" /\ ~r.data_done
        /\ ssd_hdr' = [p \in RingRange |->
                         IF p = r.page
                         THEN [type |-> "DATA", seq |-> r.seq, len |-> r.n,
                               extents |-> Extents(r.w, job)]
                         ELSE IF p > r.page /\ p * SectorsPerPage < r.plba + sectors
                         THEN NoHdr
                         ELSE ssd_hdr[p]]
        /\ ssd_data' = [s \in SsdSectors |->
                         IF s \div SectorsPerPage = r.page THEN HdrBytes
                         ELSE IF s >= r.plba /\ s < r.plba + sectors
                         THEN PayloadAt(r.w, job, s - r.plba)
                         ELSE ssd_data[s]]
        /\ reqs' = (reqs \ {r}) \cup {[r EXCEPT !.data_done = TRUE]}
        /\ UNCHANGED <<wc, work, job, njobs, ssd_super, ssd_meta, ckpt, be_data,
                       mode, crashes, nckpt, room, rd, xl, ring_pages, rc>>

\* a notify that records the payload in the reverse map only
RECURSIVE NotifyMapsReverseOnly(_, _, _, _)
NotifyMapsReverseOnly(S, w, J, plba) ==
    IF w = <<>> THEN S
    ELSE NotifyMapsReverseOnly(
             [S EXCEPT !.rmap = ExtUpdate(S.rmap, plba, plba + J[Head(w)].len, J[Head(w)].lba),
                       !.map_dirty = TRUE],
             Tail(w), J, plba + J[Head(w)].len)

\* wcache_write_req::notify, lines 257-267: the forward and reverse map
\* updates of the jobs of one record, payload starting at plba
RECURSIVE NotifyMaps(_, _, _, _)
NotifyMaps(S, w, J, plba) ==
    IF w = <<>> THEN S
    ELSE LET lba == J[Head(w)].lba
             sectors == J[Head(w)].len
         IN  NotifyMaps([S EXCEPT !.map = ExtUpdate(S.map, lba, lba + sectors, plba),
                                  !.rmap = ExtUpdate(S.rmap, plba, plba + sectors, lba),
                                  !.map_dirty = TRUE],
                        Tail(w), J, plba + sectors)

\* outstanding.front() on an empty vector is undefined: the slot's stale
\* content (the pair just erased) or cleared storage
UndefFront(start) == {start, 0}

RECURSIVE EraseFirst(_, _)
EraseFirst(q, x) ==
    IF q = <<>> THEN <<>>
    ELSE IF Head(q) = x THEN Tail(q)
    ELSE <<Head(q)>> \o EraseFirst(Tail(q), x)

\* a notify_complete that takes the pair recorded last, back(), for
\* next_acked_page
NotifyCompleteBack(S, start, len, u) ==
    IF S.fault # "none" THEN S
    ELSE IF <<start, len>> \notin SeqSet(S.outstanding) THEN Fault(S, "assert_outstanding")
    ELSE LET q == EraseFirst(S.outstanding, <<start, len>>)
         IN  [S EXCEPT !.outstanding = q,
                       !.next_acked_page = IF q = <<>> THEN u ELSE q[Len(q)][1]]

\* write_cache_impl::notify_complete(start, len); u is what front() yields
\* when the vector has become empty
NotifyComplete(S, start, len, u) ==
    IF S.fault # "none" THEN S
    ELSE IF <<start, len>> \notin SeqSet(S.outstanding) THEN Fault(S, "assert_outstanding")
    ELSE LET q == EraseFirst(S.outstanding, <<start, len>>)
         IN  [S EXCEPT !.outstanding = q,
                       !.next_acked_page = IF q = <<>> THEN u ELSE Head(q)[1]]

\* lines 275-277: the PAD's pair (if any), then the record's pair
NotifyCompleteBoth(S, r, u) ==
    IF r.pad # 0
    THEN NotifyComplete(NotifyComplete(S, r.pad, r.n_pad, u), r.page, r.n, u)
    ELSE NotifyComplete(S, r.page, r.n, u)

MarkMapped(J, w) ==
    [j \in JobIds |-> IF j \in SeqSet(w) THEN [J[j] EXCEPT !.st = "mapped"] ELSE J[j]]

\* notify, lines 257-271: maps updated, outstanding_writes decremented
NotifyMapped(S, r, J) ==
    [NotifyMaps(S, r.w, J, r.plba) EXCEPT !.outstanding_writes = @ - 1]

\* notify, lines 272-277, from the state S1 with the maps updated
NotifyTail(r, u, S1, J1) ==
    IF Len(work) >= S1.write_batch
    THEN TakeWork(Dispatch(S1, work, J1), J1, work, (reqs \ {r}) \cup {[r EXCEPT !.pc = "nc"]})
    ELSE /\ wc' = NotifyCompleteBoth(S1, r, u)
         /\ work' = work
         /\ reqs' = (reqs \ {r}) \cup {[r EXCEPT !.pc = "fwd"]}
         /\ job' = J1

\* wcache_write_req::notify, the part under the mutex (lines 250-278), run
\* once both NVMe writes have completed.  When it calls send_writes the mutex
\* is released there, and the notify_complete calls follow without it.
NotifyLocked(r, u) ==
    /\ Running
    /\ r \in reqs /\ r.pc = "io" /\ r.pad_done /\ r.data_done
    /\ NotifyTail(r, u, NotifyMapped(wc, r, job), MarkMapped(job, r.w))
    /\ UNCHANGED <<njobs, ssd_super, ssd_meta, ssd_hdr, ssd_data, ckpt, be_data,
                   mode, crashes, nckpt, room, rd, xl, ring_pages, rc>>

\* lines 275-277 when send_writes has released the mutex (line 749): the
\* assert(!m.try_lock()) of notify_complete fails when no other thread holds
\* m; in a build without assertions notify_complete runs unlocked.  A request
\* made from an empty work queue has nothing to forward and deletes itself.
NotifyCompleteUnlocked(r, u, asserts) ==
    /\ Running
    /\ r \in reqs /\ r.pc = "nc"
    /\ wc' = IF asserts THEN Fault(wc, "assert_mutex_held") ELSE NotifyCompleteBoth(wc, r, u)
    /\ reqs' = IF r.w = <<>> THEN reqs \ {r}
               ELSE (reqs \ {r}) \cup {[r EXCEPT !.pc = "fwd"]}
    /\ UNCHANGED <<work, job, njobs, ssd_super, ssd_meta, ssd_hdr, ssd_data, ckpt,
                   be_data, mode, crashes, nckpt, room, rd, xl, ring_pages, rc>>

\* translate::writev as the write cache sees it: the sectors take the bytes
BeWritev(B, lba, len, id) ==
    [s \in VSectors |-> IF s >= lba /\ s < lba + len THEN <<id, s - lba>> ELSE B[s]]

\* line 284: wcache->be->writev(lba*512, iov, iovcnt) for the k-th job
ForwardJob(r) ==
    LET id == r.w[r.k]
    IN  /\ Running
        /\ r \in reqs /\ r.pc = "fwd"
        /\ be_data' = BeWritev(be_data, job[id].lba, job[id].len, id)
        /\ job' = [job EXCEPT ![id].fwd = @ + 1]
        /\ reqs' = (reqs \ {r}) \cup {[r EXCEPT !.pc = "fire"]}
        /\ UNCHANGED <<wc, work, njobs, ssd_super, ssd_meta, ssd_hdr, ssd_data, ckpt,
                       mode, crashes, nckpt, room, rd, xl, ring_pages, rc>>

\* line 285: req->notify(NULL) for the k-th job; the client's completion
\* releases the job's room (release_room).  After the last job the request
\* deletes itself.
FireCompletion(r) ==
    LET id == r.w[r.k]
    IN  /\ Running
        /\ r \in reqs /\ r.pc = "fire"
        /\ job' = [job EXCEPT ![id].st = "done", ![id].fired = @ + 1]
        /\ wc' = release_room(wc, job[id].len)
        /\ reqs' = IF r.k = Len(r.w) THEN reqs \ {r}
                   ELSE (reqs \ {r}) \cup {[r EXCEPT !.pc = "fwd", !.k = @ + 1]}
        /\ UNCHANGED <<work, njobs, ssd_super, ssd_meta, ssd_hdr, ssd_data, ckpt, be_data,
                       mode, crashes, nckpt, room, rd, xl, ring_pages, rc>>

NextWrite ==
    \/ \E lba \in LBAs, len \in Lens : Writev(lba, len, MaxJobs)
    \/ FlushThread
    \/ \E r \in reqs : NvmePadWrite(r)
    \/ \E r \in reqs : NvmeDataWrite(r)
    \/ \E r \in reqs : \E u \in UndefFront(r.page) : NotifyLocked(r, u)
    \/ \E r \in reqs : ForwardJob(r)
    \/ \E r \in reqs : FireCompletion(r)

SpecWrite == Init /\ [][NextWrite]_vars

\* The write path under each setting of wcache_batch (config.h line 21, an
\* int the configuration supplies, default 8), on the small ring.  With
\* wcache_batch = 0 every notify sends a record, of an empty work queue when
\* nothing is queued, so the records sent are counted by sequence.
WriteBatches == 0 .. WriteBatch

InitBatch ==
    /\ InitDevice(RingPagesCrash)
    /\ wc \in {[FreshWc(FreshSuper, [p \in RingRange |-> {}], {}) EXCEPT !.write_batch = b] :
                  b \in WriteBatches}
    /\ xl = NoXlate

NextBatch ==
    \/ \E lba \in LBAs, len \in Lens : Writev(lba, len, MaxJobsCrash)
    \/ FlushThread
    \/ \E r \in reqs : NvmePadWrite(r)
    \/ \E r \in reqs : NvmeDataWrite(r)
    \/ \E r \in reqs : \E u \in UndefFront(r.page) :
          wc.sequence <= MaxRecords /\ NotifyLocked(r, u)
    \/ \E r \in reqs : \E u \in UndefFront(r.page), asserts \in BOOLEAN :
          NotifyCompleteUnlocked(r, u, asserts)
    \/ \E r \in reqs : ForwardJob(r)
    \/ \E r \in reqs : FireCompletion(r)

SpecBatch == InitBatch /\ [][NextBatch]_vars

\* The write path on the small ring, with the scheduling the code relies on:
\* NVMe writes complete, completions run to their end, and the flush thread
\* wakes every 50 ms (flush_thread, lines 428-439).
NextLive ==
    \/ \E lba \in LBAs, len \in Lens : Writev(lba, len, MaxJobsCrash)
    \/ FlushThread
    \/ \E r \in reqs : NvmePadWrite(r)
    \/ \E r \in reqs : NvmeDataWrite(r)
    \/ \E r \in reqs : \E u \in UndefFront(r.page) : NotifyLocked(r, u)
    \/ \E r \in reqs : ForwardJob(r)
    \/ \E r \in reqs : FireCompletion(r)

\* weak fairness of the flush thread, WF_vars(FlushThread), with the
\* enabledness of its step written as the test the thread makes
FlushThreadFair == <>[]FlushThreadEnabled => []<><<FlushThread>>_vars

SpecLive ==
    /\ InitCrash
    /\ [][NextLive]_vars
    /\ FlushThreadFair
    /\ WF_vars(\E r \in reqs : NvmePadWrite(r))
    /\ WF_vars(\E r \in reqs : NvmeDataWrite(r))
    /\ WF_vars(\E r \in reqs : \E u \in UndefFront(r.page) : NotifyLocked(r, u))
    /\ WF_vars(\E r \in reqs : ForwardJob(r))
    /\ WF_vars(\E r \in reqs : FireCompletion(r))

(* ------------------------ failing NVMe writes ------------------------- *)
\* the jobs of record r marked as carried by a failed write
MarkFailed(J, w) == [j \in JobIds |-> IF j \in SeqSet(w) THEN [J[j] EXCEPT !.err = TRUE] ELSE J[j]]

\* the NVMe write of the PAD page fails: nothing reaches the SSD, and the
\* child request completes into notify(child), which carries no status
\* (lines 246-249: child->release(); --reqs)
NvmePadWriteFails(r) ==
    /\ Running
    /\ r \in reqs /\ r.pc = "io" /\ ~r.pad_done
    /\ reqs' = (reqs \ {r}) \cup {[r EXCEPT !.pad_done = TRUE]}
    /\ job' = MarkFailed(job, r.w)
    /\ UNCHANGED <<wc, work, njobs, ssd_super, ssd_meta, ssd_hdr, ssd_data, ckpt, be_data,
                   mode, crashes, nckpt, room, rd, xl, ring_pages, rc>>

\* the NVMe write of header and payload fails in the same way
NvmeDataWriteFails(r) ==
    /\ Running
    /\ r \in reqs /\ r.pc = "io" /\ ~r.data_done
    /\ reqs' = (reqs \ {r}) \cup {[r EXCEPT !.data_done = TRUE]}
    /\ job' = MarkFailed(job, r.w)
    /\ UNCHANGED <<wc, work, njobs, ssd_super, ssd_meta, ssd_hdr, ssd_data, ckpt, be_data,
                   mode, crashes, nckpt, room, rd, xl, ring_pages, rc>>

\* the write path on the small ring with NVMe writes that may fail
NextNvmeErr ==
    \/ \E lba \in LBAs, len \in Lens : Writev(lba, len, MaxJobsCrash)
    \/ FlushThread
    \/ \E r \in reqs : NvmePadWrite(r)
    \/ \E r \in reqs : NvmeDataWrite(r)
    \/ \E r \in reqs : NvmePadWriteFails(r)
    \/ \E r \in reqs : NvmeDataWriteFails(r)
    \/ \E r \in reqs : \E u \in UndefFront(r.page) : NotifyLocked(r, u)
    \/ \E r \in reqs : ForwardJob(r)
    \/ \E r \in reqs : FireCompletion(r)

SpecNvmeErr == InitCrash /\ [][NextNvmeErr]_vars

(* ------------------- the throttle and its callers --------------------- *)
\* sector counts passed to get_room: below a page, one page, two pages
RoomSectors == {4, SectorsPerPage, 2 * SectorsPerPage}

RoomUnchanged ==
    UNCHANGED <<work, reqs, job, njobs, ssd_super, ssd_meta, ssd_hdr, ssd_data,
                ckpt, be_data, mode, crashes, nckpt, rd, xl, ring_pages, rc>>

\* a thread enters get_room(sectors), line 304
GetRoomCall(c, sectors) ==
    /\ room[c].pc = "idle"
    /\ Len(room[c].held) < MaxHeld
    /\ room' = [room EXCEPT ![c].pc = "get_room", ![c].sectors = sectors]
    /\ wc' = wc
    /\ RoomUnchanged

\* get_room leaves its wait loop and returns, lines 307-310
GetRoomReturn(c) ==
    /\ room[c].pc = "get_room"
    /\ RoomAvailable(wc, room[c].sectors)
    /\ wc' = get_room(wc, room[c].sectors)
    /\ room' = [room EXCEPT ![c].pc = "idle",
                            ![c].held = Append(@, room[c].sectors)]
    /\ RoomUnchanged

\* release_room(sectors) for the oldest get_room the thread still holds
ReleaseRoom(c) ==
    /\ room[c].pc = "idle"
    /\ room[c].held # <<>>
    /\ wc' = release_room(wc, Head(room[c].held))
    /\ room' = [room EXCEPT ![c].held = Tail(@)]
    /\ RoomUnchanged

\* a thread enters flush(), line 320
FlushCall(c) ==
    /\ room[c].pc = "idle"
    /\ room' = [room EXCEPT ![c].pc = "flush"]
    /\ wc' = wc
    /\ RoomUnchanged

\* flush leaves its wait loop and returns, lines 322-324
FlushReturn(c) ==
    /\ room[c].pc = "flush"
    /\ ~(wc.total_write_pages > 0)
    /\ room' = [room EXCEPT ![c].pc = "idle", ![c].flushed = TRUE]
    /\ wc' = wc
    /\ RoomUnchanged

NextRoom ==
    \/ \E c \in Callers, sectors \in RoomSectors : GetRoomCall(c, sectors)
    \/ \E c \in Callers : GetRoomReturn(c)
    \/ \E c \in Callers : ReleaseRoom(c)
    \/ \E c \in Callers : FlushCall(c)
    \/ \E c \in Callers : FlushReturn(c)

SpecRoom == Init /\ [][NextRoom]_vars

(* ----------------------- write cache: checkpoint ---------------------- *)
\* write_checkpoint, lines 474-481: the record lengths that are persisted
CkptLengths(S) ==
    {<<i, S.cb[i].n_pages>> : i \in {p \in RingRange :
        S.cb[p].type = "HDR" /\ (p < S.next_acked_page \/ p >= S.oldest)}}

\* a write_checkpoint that always writes the lower half of the metadata region
CkptBlocknoLowerHalf(S) == MetaBase

\* write_checkpoint, lines 492-494: the half of the metadata region to write
CkptBlockno(S) ==
    IF S.map_start = MetaBase THEN (MetaBase + MetaLimit) \div 2 ELSE MetaBase

\* write_checkpoint, lines 467-535: the part under the mutex.  Returns the
\* in-memory state and the locals carried to the unlocked part.
CkptGathered(S, lengths, blockno) ==
    [S |-> [S EXCEPT !.ckpt_in_progress = TRUE,
                     !.map_start = blockno,
                     !.map_entries = Cardinality(S.map),
                     !.len_entries = Cardinality(lengths)],
     c |-> [pc |-> "meta", blockno |-> blockno, e_buf |-> S.map, l_buf |-> lengths,
            super_copy |-> [seq |-> S.sequence, next |-> S.next_acked_page,
                            oldest |-> S.oldest, map_start |-> blockno,
                            map_entries |-> Cardinality(S.map),
                            len_entries |-> Cardinality(lengths)]]]

CkptGather(S) == CkptGathered(S, CkptLengths(S), CkptBlockno(S))

\* ckpt_thread, lines 455-462: the decision, then write_checkpoint's locked part
CkptDue(S) == ((S.next + ring_pages - S.next0) % ring_pages) > (ring_pages \div 4)

CkptStart(G) == wc' = G.S /\ ckpt' = G.c /\ nckpt' = nckpt + 1

CkptThread(timeout) ==
    /\ Running
    /\ nckpt < MaxCkpts
    /\ CkptDue(wc) \/ (timeout /\ wc.map_dirty)
    /\ IF wc.ckpt_in_progress
       THEN wc' = [wc EXCEPT !.next0 = wc.next] /\ UNCHANGED <<ckpt, nckpt>>
       ELSE CkptStart(CkptGather([wc EXCEPT !.next0 = wc.next]))
    /\ UNCHANGED <<work, reqs, job, njobs, ssd_super, ssd_meta, ssd_hdr, ssd_data,
                   be_data, mode, crashes, room, rd, xl, ring_pages, rc>>

\* do_write_checkpoint, lines 844-847
DoWriteCheckpoint ==
    /\ Running
    /\ nckpt < MaxCkpts
    /\ wc.map_dirty
    /\ ~wc.ckpt_in_progress
    /\ CkptStart(CkptGather(wc))
    /\ UNCHANGED <<work, reqs, job, njobs, ssd_super, ssd_meta, ssd_hdr, ssd_data,
                   be_data, mode, crashes, room, rd, xl, ring_pages, rc>>

\* line 541: nvme_w->writev of the map and length lists
CkptWriteMeta ==
    /\ Running
    /\ ckpt.pc = "meta"
    /\ ssd_meta' = [ssd_meta EXCEPT ![ckpt.blockno] = [map |-> ckpt.e_buf, lens |-> ckpt.l_buf]]
    /\ ckpt' = [ckpt EXCEPT !.pc = "super"]
    /\ UNCHANGED <<wc, work, reqs, job, njobs, ssd_super, ssd_hdr, ssd_data, be_data,
                   mode, crashes, nckpt, room, rd, xl, ring_pages, rc>>

\* line 543: nvme_w->write of the superblock copy
CkptWriteSuper ==
    /\ Running
    /\ ckpt.pc = "super"
    /\ ssd_super' = ckpt.super_copy
    /\ ckpt' = [ckpt EXCEPT !.pc = "end"]
    /\ UNCHANGED <<wc, work, reqs, job, njobs, ssd_meta, ssd_hdr, ssd_data, be_data,
                   mode, crashes, nckpt, room, rd, xl, ring_pages, rc>>

\* lines 550-551: map_dirty = false; ckpt_in_progress = false (mutex not held)
CkptEnd ==
    /\ Running
    /\ ckpt.pc = "end"
    /\ wc' = [wc EXCEPT !.map_dirty = FALSE, !.ckpt_in_progress = FALSE]
    /\ ckpt' = NoCkpt
    /\ UNCHANGED <<work, reqs, job, njobs, ssd_super, ssd_meta, ssd_hdr, ssd_data,
                   be_data, mode, crashes, nckpt, room, rd, xl, ring_pages, rc>>

(* ------------------- write cache: crash and recovery ------------------ *)
\* read_map_entries, lines 564-567: the persisted extents, in stored order
RECURSIVE LoadMap(_, _)
LoadMap(S, es) ==
    IF es = <<>> THEN S
    ELSE LET e == Head(es)
             len == e.limit - e.base
         IN  LoadMap([S EXCEPT !.map = ExtUpdate(S.map, e.base, e.limit, e.ptr),
                               !.rmap = ExtUpdate(S.rmap, e.ptr, e.ptr + len, e.base)],
                     Tail(es))

\* read_map_entries, lines 580-584: the persisted record lengths
LoadLengths(S, lens) ==
    [S EXCEPT !.cb = [p \in RingRange |->
        IF \E l \in lens : l[1] = p THEN Cell("HDR", (CHOOSE l \in lens : l[1] = p)[2])
        ELSE IF \E l \in lens : l[1] < p /\ p < l[1] + l[2] THEN Cell("DATA", 0)
        ELSE S.cb[p]]]

read_map_entries(S, meta) == LoadLengths(LoadMap(S, SetToSeq(meta.map)), meta.lens)

\* roll_log_forward, lines 642-651: the extents of one replayed record.  R
\* carries the state S, the backend B and the displaced extents (garbage).
RECURSIVE ReplayEntries(_, _, _, _)
ReplayEntries(R, entries, plba, data) ==
    IF entries = <<>> THEN R
    ELSE LET e == Head(entries)
             S == R.S
         IN  ReplayEntries(
               [S |-> [S EXCEPT !.map = ExtUpdate(S.map, e.lba, e.lba + e.len, plba),
                                !.rmap = ExtUpdate(S.rmap, plba, plba + e.len, e.lba)],
                B |-> [s \in VSectors |->
                         IF s >= e.lba /\ s < e.lba + e.len
                         THEN IF plba + (s - e.lba) \in SsdSectors
                              THEN data[plba + (s - e.lba)] ELSE Nil
                         ELSE R.B[s]],
                garbage |-> R.garbage \cup ExtDisplaced(S.map, e.lba, e.lba + e.len)],
               Tail(entries), plba + e.len, data)

\* lines 652-653: rmap.trim(g.s.base, g.s.base + g.s.len) for each displaced
\* forward extent g
RECURSIVE TrimGarbage(_, _)
TrimGarbage(m, garbage) ==
    IF garbage = {} THEN m
    ELSE LET g == CHOOSE x \in garbage : TRUE
         IN  TrimGarbage(ExtTrim(m, g.base, g.limit), garbage \ {g})

\* lines 652-656 of one replayed record: E is what ReplayEntries returned
Replayed(E, nxt) ==
    [S |-> [E.S EXCEPT !.rmap = TrimGarbage(E.S.rmap, E.garbage), !.next = nxt],
     B |-> E.B, dirty |-> TRUE]

\* roll_log_forward, the loop of lines 602-658.  hdrs and data are the SSD
\* contents; a page outside the journal holds no journal header.
RECURSIVE RollLoop(_, _, _)
RollLoop(R, hdrs, data) ==
    LET S == R.S
        page == S.next
        h == IF page \in RingRange THEN hdrs[page] ELSE NoHdr
    IN  IF S.fault # "none" THEN R
        ELSE IF h.type \notin {"DATA", "PAD"} \/ h.seq # S.sequence THEN R
        ELSE IF h.type = "PAD"
        THEN RollLoop([R EXCEPT !.S = [S EXCEPT
                          !.sequence = @ + 1,
                          !.cb = [p \in RingRange |->
                                    IF p = page THEN Cell("PAD", Limit - page)
                                    ELSE IF p > page THEN NoneCell ELSE S.cb[p]],
                          !.oob = (S.oob \/ Limit > ring_pages),
                          !.next = Base]],
                      hdrs, data)
        ELSE IF page + h.len > Limit THEN [R EXCEPT !.S = Fault(S, "cache_blocks_out_of_bounds")]
        ELSE LET S1 == [S EXCEPT
                          !.sequence = @ + 1,
                          !.cb = [p \in RingRange |->
                                    IF p = page THEN Cell("HDR", h.len)
                                    ELSE IF p > page /\ p < page + h.len THEN Cell("DATA", 0)
                                    ELSE S.cb[p]]]
             IN  RollLoop(Replayed(ReplayEntries([S |-> S1, B |-> R.B, garbage |-> {}],
                                                 h.extents, (page + 1) * SectorsPerPage, data),
                                   page + h.len),
                          hdrs, data)

\* the header read of line 604 asks for sizeof(buf) bytes, the size of a
\* pointer: magic and type arrive, seq, len and the extent list are whatever
\* the buffer held.  "full": the buffer holds the header that is on the SSD;
\* "short": it does not, and the seq comparison ends the replay.
HdrReads == {"full", "short"}

\* write_cache_impl::roll_log_forward; returns state, backend, dirty
roll_log_forward(S, B, hdrs, data, u) ==
    IF u = "full" THEN RollLoop([S |-> S, B |-> B, dirty |-> FALSE], hdrs, data)
    ELSE [S |-> S, B |-> B, dirty |-> FALSE]

\* power loss or process death: memory is gone, the SSD stays
Crash ==
    /\ mode = "run"
    /\ crashes < MaxCrashes
    /\ mode' = "down"
    /\ crashes' = crashes + 1
    /\ wc' = FreshWc(FreshSuper, wc.rj, wc.evj)
    /\ work' = <<>>
    /\ reqs' = {}
    /\ ckpt' = NoCkpt
    /\ job' = [j \in JobIds |-> IF job[j].st \in {"none", "done"} THEN job[j]
                                ELSE [job[j] EXCEPT !.st = "lost"]]
    /\ UNCHANGED <<njobs, ssd_super, ssd_meta, ssd_hdr, ssd_data, be_data, nckpt, room, rd, xl, ring_pages, rc>>

\* lines 661-662: the checkpoint roll_log_forward writes when it replayed a
\* record; G is what write_checkpoint gathered
BootCheckpoint(G) ==
    /\ wc' = [G.S EXCEPT !.map_dirty = FALSE, !.ckpt_in_progress = FALSE]
    /\ ssd_meta' = [ssd_meta EXCEPT ![G.c.blockno] = [map |-> G.c.e_buf, lens |-> G.c.l_buf]]
    /\ ssd_super' = G.c.super_copy

Recovered(R) ==
    /\ be_data' = R.B
    /\ IF R.dirty /\ R.S.fault = "none"
       THEN BootCheckpoint(CkptGather(R.S))
       ELSE /\ wc' = R.S
            /\ UNCHANGED <<ssd_meta, ssd_super>>

\* the constructor down to line 689: superblock and read_map_entries
Loaded(S0) ==
    IF ssd_super.map_entries # 0
    THEN read_map_entries(S0, ssd_meta[ssd_super.map_start]) ELSE S0

\* the constructor, lines 667-701: superblock, read_map_entries,
\* roll_log_forward and the checkpoint it writes when it replayed a record
Recover(u) ==
    /\ mode = "down"
    /\ mode' = "run"
    /\ Recovered(roll_log_forward(Loaded(FreshWc(ssd_super, wc.rj, wc.evj)),
                                  be_data, ssd_hdr, ssd_data, u))
    /\ UNCHANGED <<work, reqs, job, njobs, ssd_hdr, ssd_data, ckpt, crashes,
                   nckpt, room, rd, xl, ring_pages, rc>>

(* ------------------------ write cache: reads -------------------------- *)
\* an async_read that does not clip the extent to the end of the request
async_read_unclipped(S, lba, len) ==
    IF ExtFrom(S.map, lba) = {} \/ ExtLookup(S.map, lba).base >= lba + len
    THEN [skip |-> len, read |-> 0, plba |-> -1]
    ELSE [skip |-> Max(ExtLookup(S.map, lba).base, lba) - lba,
          read |-> ExtLookup(S.map, lba).limit - Max(ExtLookup(S.map, lba).base, lba),
          plba |-> Vals(ExtLookup(S.map, lba), lba, lba + len).ptr]

\* write_cache_impl::async_read, lines 769-796, for a request of len sectors
\* at lba: [skip, read, plba]; plba = -1 when no NVMe request is made
async_read(S, lba, len) ==
    LET base == lba
        limit == base + len
    IN  IF ExtFrom(S.map, base) = {} THEN [skip |-> len, read |-> 0, plba |-> -1]
        ELSE LET it == ExtLookup(S.map, base)
                 v == Vals(it, base, limit)
             IN  IF it.base >= limit THEN [skip |-> len, read |-> 0, plba |-> -1]
                 ELSE [skip |-> v.base - base, read |-> v.limit - v.base, plba |-> v.ptr]

(* ---------------------- the read loop of a caller -------------------- *)
\* wcache_read, lsvd_debug.cc lines 172-195, in sectors.  buf records what each
\* sector of the caller's buffer is filled from: 0 for the memset of a skipped
\* sector, else the SSD sector the NVMe read request fetches.
ReadUnchanged ==
    UNCHANGED <<wc, work, reqs, job, njobs, ssd_super, ssd_meta, ssd_hdr, ssd_data,
                ckpt, be_data, mode, crashes, nckpt, room, xl, ring_pages, rc>>

\* lines 174-178: the call and the locals of the loop
ReadCall(offset, len) ==
    /\ rd.pc \in {"idle", "done"}
    /\ rd' = [NoRead EXCEPT !.pc = "loop", !.offset = offset, !.len = len,
                            !.at = offset, !.n = len]
    /\ ReadUnchanged

\* lines 180-191 for the tuple r that async_read returned
ReadAdvance(r) ==
    rd' = [rd EXCEPT !.buf = @ \o [i \in 1 .. r.skip |-> 0]
                                \o [i \in 1 .. r.read |-> r.plba + i - 1],
                     !.offset = @ + (r.skip + r.read),
                     !.len = @ - (r.skip + r.read),
                     !.arg = [offset |-> rd.offset, len |-> rd.len],
                     !.ret = r]

\* one iteration of the for loop, lines 178-192
ReadSlice ==
    /\ rd.pc = "loop"
    /\ rd.len > 0
    /\ ReadAdvance(async_read(wc, rd.offset, rd.len))
    /\ ReadUnchanged

\* the loop ends (_len > 0 is false), lines 193-194
ReadReturn ==
    /\ rd.pc = "loop"
    /\ ~(rd.len > 0)
    /\ rd' = [rd EXCEPT !.pc = "done"]
    /\ ReadUnchanged

\* the reverse map of a forward map
RmapOf(m) == {Ext(e.ptr, e.ptr + (e.limit - e.base), e.base) : e \in m}

\* forward maps of at most two extents over the sectors 0 .. MaxReadSector,
\* their payloads in different journal pages
ReadExts ==
    {Ext(b, l, p) : b \in 0 .. MaxReadSector, l \in 1 .. (MaxReadSector + 1),
                    p \in {(Base + 1) * SectorsPerPage, (Base + 2) * SectorsPerPage}}
ReadMaps ==
    {m \in {{}} \cup {{e} : e \in ReadExts} \cup {{e1, e2} : e1 \in ReadExts, e2 \in ReadExts} :
        /\ \A e \in m : e.base < e.limit
        /\ Disjoint(m)
        /\ Disjoint(RmapOf(m))}

InitRead ==
    /\ InitDevice(RingPages)
    /\ wc \in {[FreshWc(FreshSuper, [p \in RingRange |-> {}], {})
                   EXCEPT !.map = m, !.rmap = RmapOf(m)] : m \in ReadMaps}
    /\ xl = NoXlate

NextRead ==
    \/ \E offset \in 0 .. MaxReadSector, len \in 1 .. (MaxReadSector + 1) :
          ReadCall(offset, len)
    \/ ReadSlice
    \/ ReadReturn

SpecRead == InitRead /\ [][NextRead]_vars

(* ------------------ reads racing with the write path ------------------ *)
\* the sectors an NVMe read of n sectors at plba fetches from the SSD
NvmeSectors(data, plba, n) == [i \in 1 .. n |-> data[plba + i - 1]]

\* write_cache_impl::async_read, lines 769-796, called while writes go on:
\* the lookup is made under the mutex, the request is made after lk.unlock()
\* (lines 790-793) and is run by the caller later.  want records the bytes at
\* the location the forward map gave, as they are at the lookup.
AsyncReadCall(lba, len) ==
    /\ Running
    /\ rd.pc \in {"idle", "done"}
    /\ rd.n < MaxRaceReads
    /\ rd' = [NoRead EXCEPT
                !.pc = IF async_read(wc, lba, len).read > 0 THEN "req" ELSE "done",
                !.arg = [offset |-> lba, len |-> len],
                !.ret = async_read(wc, lba, len),
                !.n = rd.n + 1,
                !.want = NvmeSectors(ssd_data, async_read(wc, lba, len).plba,
                                     async_read(wc, lba, len).read)]
    /\ ReadUnchanged

\* the request made by nvme_w->make_read_request(buf, read_len, nvme_offset)
\* performs its read
NvmeRead ==
    /\ Running
    /\ rd.pc = "req"
    /\ rd' = [rd EXCEPT !.pc = "done",
                        !.buf = NvmeSectors(ssd_data, rd.ret.plba, rd.ret.read)]
    /\ ReadUnchanged

NextReadRace ==
    \/ \E lba \in LBAs, len \in Lens : Writev(lba, len, MaxJobsCrash)
    \/ FlushThread
    \/ \E r \in reqs : NvmePadWrite(r)
    \/ \E r \in reqs : NvmeDataWrite(r)
    \/ \E r \in reqs : \E u \in UndefFront(r.page) : NotifyLocked(r, u)
    \/ \E r \in reqs : ForwardJob(r)
    \/ \E r \in reqs : FireCompletion(r)
    \/ \E lba \in LBAs, len \in Lens : AsyncReadCall(lba, len)
    \/ NvmeRead

SpecReadRace == InitCrash /\ [][NextReadRace]_vars

(* ------------------------- translation layer -------------------------- *)
\* class translate, lsvd_rbd.cc lines 192-687, in sectors.  An obj_offset
\* {obj, offset} is the number obj * ObjStride + offset, so that the extent
\* map advances the offset as extmap does.
XlHdrSectors == 1
\* the hdr_sectors field make_hdr stores in a DATA object's header
MadeHdrSectors == 8
\* an obj_offset {obj, offset} as one number; offsets stay below the stride
ObjStride == MadeHdrSectors + BatchMax + 1
ObjOffset(obj, offset) == obj * ObjStride + offset

\* translate::flush, lines 495-504, and the test of writev's line 569: the
\* current batch goes to the workers' queue
PutBatch(X) == [X EXCEPT !.q = Append(@, X.cur), !.cur = 0]

\* writev, lines 569-572
PutIfFull(X, len) ==
    IF X.cur # 0 /\ Len(X.bufs[X.cur]) + len > BatchMax THEN PutBatch(X) ELSE X

\* a writev that does not enter the batch in in_mem_objects
NewBatchNoInMem(X) ==
    IF X.cur # 0 THEN X
    ELSE [X EXCEPT !.cur = X.batch_seq,
                   !.batch_seq = @ + 1,
                   !.handed = Append(@, X.batch_seq),
                   !.bufs[X.batch_seq] = <<>>,
                   !.entries[X.batch_seq] = <<>>]

\* writev, lines 573-583: a batch is taken and reset (batch::reset, line 99)
NewBatch(X) ==
    IF X.cur # 0 THEN X
    ELSE [X EXCEPT !.cur = X.batch_seq,
                   !.batch_seq = @ + 1,
                   !.handed = Append(@, X.batch_seq),
                   !.bufs[X.batch_seq] = <<>>,
                   !.entries[X.batch_seq] = <<>>,
                   !.in_mem = IF X.nocache THEN @ \cup {X.batch_seq} ELSE @]

\* the sectors of [lba, lba + len) that map m gives to object o: the sum of
\* limit - base over the extents of o that an update of the range deletes
Displaced(m, lba, len, o) ==
    Cardinality({s \in lba .. (lba + len - 1) :
                    ExtAt(m, s) # -1 /\ ExtAt(m, s) \div ObjStride = o})

\* object_info[ptr.obj].live -= (limit - base) for the deleted extents, those
\* of object skip left alone (lines 595-598, and 410-415 with skip = b->seq)
InfoSub(info, m, lba, len, skip) ==
    [o \in XlSeqs |->
        IF o = skip THEN info[o]
        ELSE [info[o] EXCEPT !.live = @ - Displaced(m, lba, len, o)]]

\* writev, lines 585-599: append_iov, and the map update made when nocache
AppendIov(X, lba, len, id) ==
    [X EXCEPT !.bufs[X.cur] = @ \o [i \in 1 .. len |-> <<id, i - 1>>],
              !.entries[X.cur] = Append(@, [lba |-> lba, len |-> len]),
              !.map = IF X.nocache
                      THEN ExtUpdate(@, lba, lba + len, ObjOffset(X.cur, Len(X.bufs[X.cur])))
                      ELSE @,
              !.info = IF X.nocache THEN InfoSub(@, X.map, lba, len, 0) ELSE @,
              !.nwrites = id,
              !.last = [s \in XlSectors |->
                          IF s >= lba /\ s < lba + len THEN <<id, s - lba>> ELSE X.last[s]]]

XlUnchanged ==
    UNCHANGED <<wc, work, reqs, job, njobs, ssd_super, ssd_meta, ssd_hdr, ssd_data,
                ckpt, be_data, mode, crashes, nckpt, room, rd, ring_pages, rc>>

\* translate::writev, lines 565-603
XlWritev(lba, len) ==
    /\ xl.nwrites < MaxXlWrites
    /\ xl' = AppendIov(NewBatch(PutIfFull(xl, len)), lba, len, xl.nwrites + 1)
    /\ XlUnchanged

\* translate::flush, lines 495-504
XlFlush ==
    /\ xl.cur # 0 /\ Len(xl.bufs[xl.cur]) > 0
    /\ xl' = PutBatch(xl)
    /\ XlUnchanged

\* worker_thread, lines 388-395: a worker takes the batch at the head of the
\* queue and makes its object_info entry
WorkerTake ==
    /\ xl.running
    /\ xl.q # <<>>
    /\ xl.idle > 0
    /\ xl' = [xl EXCEPT !.q = Tail(@), !.wk[Head(xl.q)] = "taken", !.idle = @ - 1,
                        !.info[Head(xl.q)] = [type |-> "data",
                                              live |-> Len(xl.bufs[Head(xl.q)])]]
    /\ XlUnchanged

\* worker_thread, lines 396-401: the object is written to the backend, a
\* header of hdr_sectors followed by the batch buffer; make_hdr (line 378)
\* stores last_ckpt in the header
WorkerWriteObject(b) ==
    /\ xl.wk[b] = "taken"
    /\ xl' = [xl EXCEPT !.wk[b] = "written",
                        !.objs[b] = [i \in 1 .. XlHdrSectors |-> HdrBytes] \o xl.bufs[b],
                        !.otype[b] = "data",
                        !.ohdr[b] = xl.entries[b],
                        !.ock[b] = xl.last_ckpt]
    /\ XlUnchanged

\* worker_thread, lines 405-414: every entry of the batch is mapped to the
\* object at offset hdr_sectors, which the loop does not advance
RECURSIVE WorkerMapEntries(_, _, _, _)
WorkerMapEntries(m, es, b, offset) ==
    IF es = <<>> THEN m
    ELSE WorkerMapEntries(ExtUpdate(m, Head(es).lba, Head(es).lba + Head(es).len,
                                    ObjOffset(b, offset)),
                          Tail(es), b, offset)

\* worker_thread, lines 405-415: object_info as the same loop leaves it, the
\* extents deleted from other objects taken off their live sectors
RECURSIVE WorkerInfoEntries(_, _, _, _, _)
WorkerInfoEntries(info, m, es, b, offset) ==
    IF es = <<>> THEN info
    ELSE WorkerInfoEntries(InfoSub(info, m, Head(es).lba, Head(es).len, b),
                           ExtUpdate(m, Head(es).lba, Head(es).lba + Head(es).len,
                                     ObjOffset(b, offset)),
                           Tail(es), b, offset)

\* worker_thread, lines 403-419
WorkerUpdateMap(b) ==
    /\ xl.wk[b] = "written"
    /\ xl' = [xl EXCEPT !.wk[b] = "done",
                        !.map = WorkerMapEntries(@, xl.entries[b], b, XlHdrSectors),
                        !.info = WorkerInfoEntries(@, xl.map, xl.entries[b], b,
                                                   XlHdrSectors),
                        !.in_mem = @ \ {b},
                        !.idle = @ + 1]
    /\ XlUnchanged

\* read_numbered_object(obj, ptr, offset, len) for one sector: Nil when the
\* object or the sector does not exist
ReadObject(X, obj, offset) ==
    IF obj \in XlSeqs /\ offset + 1 \in 1 .. Len(X.objs[obj]) THEN X.objs[obj][offset + 1]
    ELSE Nil

\* memcpy from in_mem_objects[obj] + offset, line 640
ReadInMem(X, obj, offset) ==
    IF offset + 1 \in 1 .. Len(X.bufs[obj]) THEN X.bufs[obj][offset + 1] ELSE Nil

\* what a caller's buffer holds where read() has stored nothing
StaleBytes == <<0, 3>>

\* the extents the loop of lines 629-645 visits: from lookup(base) while
\* it->base() < limit, in the order of their bases
ReadVisits(m, base, limit) == SetToSeq({e \in ExtFrom(m, base) : e.base < limit})

\* the bytes of one mapped region, lines 636-643 and 655-657: from the batch
\* buffer when the object is in in_mem_objects, from the backend otherwise
RegionBytes(X, v) ==
    [i \in 1 .. (v.limit - v.base) |->
        IF v.ptr \div ObjStride \in X.in_mem
        THEN ReadInMem(X, v.ptr \div ObjStride, (v.ptr % ObjStride) + i - 1)
        ELSE ReadObject(X, v.ptr \div ObjStride, (v.ptr % ObjStride) + i - 1)]

\* the loop of lines 629-645 with the copy-out of lines 651-658: the bytes
\* stored into the buffer, an unmapped region (-1) before an extent being
\* zero-filled; prev is the limit of the extent visited last
RECURSIVE ReadRegions(_, _, _, _, _)
ReadRegions(X, es, prev, base, limit) ==
    IF es = <<>> THEN <<>>
    ELSE [i \in 1 .. (Vals(Head(es), base, limit).base - prev) |-> ZeroBytes]
           \o RegionBytes(X, Vals(Head(es), base, limit))
           \o ReadRegions(X, Tail(es), Vals(Head(es), base, limit).limit, base, limit)

\* the objects of the regions pushed at line 641 with obj >= 0, the ones
\* line 658 reads with read_numbered_object: those of the extents visited
\* that are not in in_mem_objects
BackendReads(X, base, limit) ==
    {e.ptr \div ObjStride : e \in {v \in ExtFrom(X.map, base) :
                                     v.base < limit /\ v.ptr \div ObjStride \notin X.in_mem}}

\* the buffer after the regions have been stored at its start
ReadInto(stored, sectors) ==
    [ret |-> Len(stored),
     buf |-> stored \o [i \in 1 .. (sectors - Len(stored)) |-> StaleBytes]]

\* translate::read(offset, len, buf), lines 610-660, in sectors: the value
\* returned (ptr - buf) and the buffer's content
translate_read(X, base, sectors) ==
    IF X.map = {} THEN [ret |-> sectors, buf |-> [i \in 1 .. sectors |-> ZeroBytes]]
    ELSE ReadInto(ReadRegions(X, ReadVisits(X.map, base, base + sectors), base,
                              base, base + sectors), sectors)

\* translate::read of the one sector s
XlRead(X, s) == translate_read(X, s, 1).buf[1]

\* nocache is whatever the caller stored in the member, or what the memory
\* held (rbd_open, line 1909, never sets it)
InitXlate ==
    /\ InitDevice(RingPages)
    /\ wc = FreshWc(FreshSuper, [p \in RingRange |-> {}], {})
    /\ xl \in {[NoXlate EXCEPT !.nocache = v] : v \in BOOLEAN}

NextXlate ==
    \/ \E lba \in XlSectors : XlWritev(lba, 1)
    \/ XlFlush
    \/ WorkerTake
    \/ \E b \in XlSeqs : WorkerWriteObject(b)
    \/ \E b \in XlSeqs : WorkerUpdateMap(b)

SpecXlate == InitXlate /\ [][NextXlate]_vars

(* ------------- translation layer: checkpoint and restart -------------- *)
\* translate::checkpoint, lines 484-491: the current batch is sealed and
\* queued, the checkpoint takes the next sequence number, the mutex is
\* released
SealBatch(X) == IF X.cur # 0 /\ Len(X.bufs[X.cur]) > 0 THEN PutBatch(X) ELSE X

TakeCkptSeq(X, want) ==
    [X EXCEPT !.ck = X.batch_seq,
              !.batch_seq = @ + 1,
              !.handed = Append(@, X.batch_seq),
              !.ck_last = want,
              !.nck = @ + 1]

XlCheckpoint ==
    /\ xl.ck = 0 /\ xl.nck < MaxXlCkpts /\ xl.batch_seq \in XlSeqs
    /\ xl' = TakeCkptSeq(SealBatch(xl), xl.last)
    /\ XlUnchanged

\* translate::write_checkpoint(seq), lines 313-361: the map as it stands is
\* copied under map->m and written as the CKPT object seq (write_object
\* truncates an object that exists)
XlWriteCheckpoint ==
    /\ xl.ck # 0
    /\ xl' = [xl EXCEPT !.ck = 0,
                        !.last_ckpt = xl.ck,
                        !.otype[xl.ck] = "ckpt",
                        !.objs[xl.ck] = <<HdrBytes>>,
                        !.ohdr[xl.ck] = <<>>,
                        !.ockmap[xl.ck] = xl.map,
                        !.ockobjs[xl.ck] = [o \in XlSeqs |->
                            IF xl.info[o].type = "data" THEN xl.info[o] ELSE NoInfo],
                        !.info[xl.ck] = [type |-> "ckpt", live |-> 0]]
    /\ XlUnchanged

\* the super object comes to list a checkpoint that has been written ("write
\* the new CKPT first, then update super"); translate itself never writes
\* the super object
SuperListsCkpt(c) ==
    /\ xl.otype[c] = "ckpt" /\ c \notin SeqSet(xl.super_ckpts)
    /\ xl' = [xl EXCEPT !.super_ckpts = Append(@, c)]
    /\ XlUnchanged

\* init, lines 523-526: the map entries of a checkpoint are applied
RECURSIVE LoadCkptMap(_, _)
LoadCkptMap(m, es) ==
    IF es = <<>> THEN m
    ELSE LoadCkptMap(ExtUpdate(m, Head(es).base, Head(es).limit, Head(es).ptr), Tail(es))

\* init, lines 515-532: the checkpoints of the super's list, in its order;
\* _ckpt ends as the last one, or stays 1
RECURSIVE InitCkpts(_, _, _)
InitCkpts(X, m, cks) ==
    IF cks = <<>> THEN m
    ELSE InitCkpts(X, LoadCkptMap(m, SetToSeq(X.ockmap[Head(cks)])), Tail(cks))

LastCkpt(cks) == IF cks = <<>> THEN 1 ELSE cks[Len(cks)]

\* init, lines 544-549: the entries of DATA object i, at the offsets that
\* follow the header's hdr_sectors field
RECURSIVE InitEntries(_, _, _, _)
InitEntries(m, es, i, offset) ==
    IF es = <<>> THEN m
    ELSE InitEntries(ExtUpdate(m, Head(es).lba, Head(es).lba + Head(es).len,
                               ObjOffset(i, offset + MadeHdrSectors)),
                     Tail(es), i, offset + Head(es).len)

\* read_data_hdr(i), lines 265-287: the object exists and is a DATA object
IsDataObject(X, i) == i \in XlSeqs /\ X.otype[i] = "data"

\* init, lines 534-550: the scan of DATA objects from i, batch_seq following
RECURSIVE InitScan(_, _, _)
InitScan(X, m, i) ==
    IF ~IsDataObject(X, i) THEN [map |-> m, batch_seq |-> i]
    ELSE InitScan(X, InitEntries(m, X.ohdr[i], i, 0), i + 1)

\* init, lines 523-527: object_info takes the DATA objects each checkpoint lists
RECURSIVE InitCkptInfo(_, _, _)
InitCkptInfo(X, info, cks) ==
    IF cks = <<>> THEN info
    ELSE InitCkptInfo(X, [o \in XlSeqs |->
                            IF X.ockobjs[Head(cks)][o].type = "data"
                            THEN X.ockobjs[Head(cks)][o] ELSE info[o]],
                      Tail(cks))

\* init, lines 543-544: every DATA object the scan reads gets live =
\* data_sectors, the b->len / 512 make_hdr stored
RECURSIVE InitScanInfo(_, _, _)
InitScanInfo(X, info, i) ==
    IF ~IsDataObject(X, i) THEN info
    ELSE InitScanInfo(X, [info EXCEPT ![i] = [type |-> "data",
                                              live |-> Len(X.objs[i]) - XlHdrSectors]],
                      i + 1)

\* translate::init, lines 506-560, on the backend objects of X: the scan
\* starts at _ckpt itself
translate_init(X) == InitScan(X, InitCkpts(X, {}, X.super_ckpts), LastCkpt(X.super_ckpts))

\* the process stops at any moment and a new one runs init: the backend
\* objects and the super object are what remains (the history of last
\* writes starts afresh with the run)
XlRestart ==
    /\ xl.ninit < MaxXlInits
    /\ xl' = [NoXlate EXCEPT !.nocache = xl.nocache,
                             !.objs = xl.objs, !.otype = xl.otype, !.ohdr = xl.ohdr,
                             !.ockmap = xl.ockmap, !.super_ckpts = xl.super_ckpts,
                             !.ockobjs = xl.ockobjs, !.ock = xl.ock,
                             !.info = InitScanInfo(xl,
                                 InitCkptInfo(xl, NoXlate.info, xl.super_ckpts),
                                 LastCkpt(xl.super_ckpts)),
                             !.nwrites = xl.nwrites, !.nck = xl.nck,
                             !.ninit = xl.ninit + 1,
                             !.map = translate_init(xl).map,
                             !.batch_seq = translate_init(xl).batch_seq]
    /\ XlUnchanged

\* write_checkpoint(seq), lines 317-324: under map->m, last_ckpt takes the
\* new sequence number and the map is copied
XlCkptMark ==
    /\ xl.ck # 0 /\ xl.last_ckpt # xl.ck
    /\ xl' = [xl EXCEPT !.last_ckpt = xl.ck, !.ck_entries = xl.map]
    /\ XlUnchanged

\* write_checkpoint(seq), lines 327-361: object_info is copied under m and
\* write_numbered_object is called, its result not looked at; ok is whether
\* the backend stored the object
XlCkptWrite(ok) ==
    /\ xl.ck # 0 /\ xl.last_ckpt = xl.ck
    /\ xl' = [xl EXCEPT !.ck = 0,
                        !.otype[xl.ck] = IF ok THEN "ckpt" ELSE @,
                        !.objs[xl.ck] = IF ok THEN <<HdrBytes>> ELSE @,
                        !.ockmap[xl.ck] = IF ok THEN xl.ck_entries ELSE @,
                        !.ockobjs[xl.ck] = IF ok
                            THEN [o \in XlSeqs |->
                                    IF xl.info[o].type = "data" THEN xl.info[o] ELSE NoInfo]
                            ELSE @,
                        !.info[xl.ck] = [type |-> "ckpt", live |-> 0]]
    /\ XlUnchanged

\* the translation layer with write_checkpoint in its two critical sections
NextXlPub ==
    \/ \E lba \in XlSectors : XlWritev(lba, 1)
    \/ XlFlush
    \/ WorkerTake
    \/ \E b \in XlSeqs : WorkerWriteObject(b)
    \/ \E b \in XlSeqs : WorkerUpdateMap(b)
    \/ XlCheckpoint
    \/ XlCkptMark
    \/ \E ok \in BOOLEAN : XlCkptWrite(ok)

SpecXlPub == InitXlate /\ [][NextXlPub]_vars

NextXlCkpt ==
    \/ \E lba \in XlSectors : XlWritev(lba, 1)
    \/ XlFlush
    \/ WorkerTake
    \/ \E b \in XlSeqs : WorkerWriteObject(b)
    \/ \E b \in XlSeqs : WorkerUpdateMap(b)
    \/ XlCheckpoint
    \/ XlWriteCheckpoint
    \/ \E c \in XlSeqs : SuperListsCkpt(c)
    \/ XlRestart

SpecXlCkpt == InitXlate /\ [][NextXlCkpt]_vars

(* ------------------- translation layer: the two locks ----------------- *)
\* the lock events of each operation in program order: "+m" / "-m" lock and
\* unlock the translation mutex m, "+map" / "-map" the object-map lock
\* map->m taken exclusively, "+maps" taken shared
\* write_checkpoint that keeps map->m until it returns
CkptLocksNested == <<"+map", "+m", "-m", "-map">>

\* write_checkpoint, lines 317, 324, 327, 340
CkptLocks == <<"+map", "-map", "+m", "-m">>

\* writev, lines 566 and 592; both are released when writev returns
WritevLocks(nocache) ==
    IF nocache THEN <<"+m", "+map", "-map", "-m">> ELSE <<"+m", "-m">>

\* read, lines 622, 623, 645, 646
ReadLocks == <<"+m", "+maps", "-map", "-m">>

\* one turn of worker_thread, lines 389, 396, 404, 405, 419, 420
WorkerLocks == <<"+m", "-m", "+m", "+map", "-map", "-m">>

\* checkpoint, lines 485 and 491, then write_checkpoint
CheckpointLocks == <<"+m", "-m">> \o CkptLocks

\* flush, line 496, released on return
FlushLocks == <<"+m", "-m">>

LockOps == {"writev", "read", "worker", "checkpoint", "flush"}

LockScript(op, nocache) ==
    CASE op = "writev" -> WritevLocks(nocache)
      [] op = "read" -> ReadLocks
      [] op = "worker" -> WorkerLocks
      [] op = "checkpoint" -> CheckpointLocks
      [] op = "flush" -> FlushLocks
      [] OTHER -> <<>>

\* the events thread t has executed, and the one it executes next
LockDone(X, t) == SubSeq(LockScript(X.lk[t].op, X.nocache), 1, X.lk[t].pc)
LockNext(X, t) ==
    IF X.lk[t].pc < Len(LockScript(X.lk[t].op, X.nocache))
    THEN LockScript(X.lk[t].op, X.nocache)[X.lk[t].pc + 1] ELSE "none"

Count(sq, vals) == Cardinality({i \in 1 .. Len(sq) : sq[i] \in vals})

HoldsM(X, t) == Count(LockDone(X, t), {"+m"}) > Count(LockDone(X, t), {"-m"})
HoldsMap(X, t) ==
    Count(LockDone(X, t), {"+map", "+maps"}) > Count(LockDone(X, t), {"-map"})
HoldsMapShared(X, t) ==
    /\ HoldsMap(X, t)
    /\ LockDone(X, t)[CHOOSE i \in 1 .. X.lk[t].pc :
                        /\ LockDone(X, t)[i] \in {"+map", "+maps"}
                        /\ \A j \in (i + 1) .. X.lk[t].pc :
                              LockDone(X, t)[j] \notin {"+map", "+maps"}] = "+maps"

\* std::mutex and std::shared_mutex: the next event of t does not block
CanStep(X, t) ==
    CASE LockNext(X, t) = "+m" -> \A u \in XlThreads \ {t} : ~HoldsM(X, u)
      [] LockNext(X, t) = "+map" -> \A u \in XlThreads \ {t} : ~HoldsMap(X, u)
      [] LockNext(X, t) = "+maps" ->
            \A u \in XlThreads \ {t} : HoldsMap(X, u) => HoldsMapShared(X, u)
      [] LockNext(X, t) \in {"-m", "-map"} -> TRUE
      [] OTHER -> FALSE

\* thread t enters one of the operations
LockCall(t, op) ==
    /\ xl.lk[t].op = "idle"
    /\ xl' = [xl EXCEPT !.lk[t] = [op |-> op, pc |-> 0]]
    /\ XlUnchanged

\* thread t executes its next lock event; after the last one it has returned
LockStep(t) ==
    /\ CanStep(xl, t)
    /\ xl' = [xl EXCEPT !.lk[t] =
                  IF xl.lk[t].pc + 1 = Len(LockScript(xl.lk[t].op, xl.nocache))
                  THEN [op |-> "idle", pc |-> 0]
                  ELSE [@ EXCEPT !.pc = @ + 1]]
    /\ XlUnchanged

NextXlLock ==
    \/ \E t \in XlThreads : \E op \in LockOps : LockCall(t, op)
    \/ \E t \in XlThreads : LockStep(t)

SpecXlLock == InitXlate /\ [][NextXlLock]_vars

(* ------------------- translation layer: shutdown ---------------------- *)
\* ~thread_pool, lines 131-140: running = false and notify_all under the
\* mutex; the joins that follow wait for the workers
XlShutdown ==
    /\ xl.running
    /\ xl' = [xl EXCEPT !.running = FALSE]
    /\ XlUnchanged

\* worker_thread, line 388: a worker that holds no batch finds running false
\* at the top of its loop and returns
WorkerExit ==
    /\ ~xl.running
    /\ xl.idle > 0
    /\ xl' = [xl EXCEPT !.idle = @ - 1]
    /\ XlUnchanged

\* get_locked, lines 141-147, then worker_thread lines 390-392, for a worker
\* that was past line 388 when running became false: the wait loop ends,
\* q.front() and q.pop() run whatever the queue holds, and the worker returns
\* with the batch it took
WorkerExitInGet ==
    /\ ~xl.running
    /\ xl.idle > 0
    /\ xl' = IF xl.q # <<>>
             THEN [xl EXCEPT !.q = Tail(@), !.dropped = @ \cup {Head(xl.q)}, !.idle = @ - 1]
             ELSE [xl EXCEPT !.empty_front = TRUE, !.idle = @ - 1]
    /\ XlUnchanged

\* writev and flush are not called once the destructor runs
NextXlStop ==
    \/ \E lba \in XlSectors : xl.running /\ XlWritev(lba, 1)
    \/ xl.running /\ XlFlush
    \/ WorkerTake
    \/ \E b \in XlSeqs : WorkerWriteObject(b)
    \/ \E b \in XlSeqs : WorkerUpdateMap(b)
    \/ XlShutdown
    \/ WorkerExit
    \/ WorkerExitInGet

SpecXlStop == InitXlate /\ [][NextXlStop]_vars

\* a caller reads [offset, offset + len) through translate::read
XlReadCall(offset, len) ==
    /\ rd' = [NoRead EXCEPT !.pc = "xlread", !.arg = [offset |-> offset, len |-> len],
                            !.n = translate_read(xl, offset, len).ret,
                            !.buf = translate_read(xl, offset, len).buf]
    /\ UNCHANGED <<wc, work, reqs, job, njobs, ssd_super, ssd_meta, ssd_hdr, ssd_data,
                   ckpt, be_data, mode, crashes, nckpt, room, xl, ring_pages, rc>>

\* the sectors the translation layer's reads range over
XlReadSectors == 0 .. MaxReadSector

\* the sectors written: they leave a gap before, between and after them
XlReadLbas == {1, 3}

\* the translation layer with writes to XlReadLbas and reads of every range
\* within XlReadSectors
NextXlRead ==
    \/ \E lba \in XlReadLbas : XlWritev(lba, 1)
    \/ XlFlush
    \/ WorkerTake
    \/ \E b \in XlSeqs : WorkerWriteObject(b)
    \/ \E b \in XlSeqs : WorkerUpdateMap(b)
    \/ \E offset \in XlReadSectors : \E len \in 1 .. (MaxReadSector + 1 - offset) :
          XlReadCall(offset, len)

SpecXlRead == InitXlate /\ [][NextXlRead]_vars

(* ------------------- the write cache with crashes --------------------- *)
(* ----------------------------- read cache ----------------------------- *)
RcUnchanged ==
    UNCHANGED <<wc, work, reqs, job, njobs, ssd_super, ssd_meta, ssd_hdr, ssd_data,
                ckpt, be_data, mode, crashes, nckpt, room, rd, xl, ring_pages>>

round_up(n, m) == m * div_round_up(n, m)

\* page_mask(base, limit, unit), lines 727-737: the set of bits of the mask
page_mask(base, limit, unit) ==
    {((base \div SectorsPerPage) % (unit \div SectorsPerPage)) + k :
        k \in 0 .. (div_round_up(Min(limit, round_up(base + 1, unit)), SectorsPerPage)
                      - (base \div SectorsPerPage) - 1)}

\* read, lines 929-932: the adds that follow the copy-out; an add whose
\* sectors are used up has returned
RECURSIVE RcNextAdd(_)
RcNextAdd(T) ==
    IF T.to_add = <<>> THEN [T EXCEPT !.pc = "done"]
    ELSE IF Head(T.to_add).sectors <= 0 THEN RcNextAdd([T EXCEPT !.to_add = Tail(@)])
    ELSE [T EXCEPT !.pc = "add"]

Zeros(n) == [i \in 1 .. n |-> ZeroBytes]

\* read, lines 862-871 and 923-926: the next extent with the zero fill of
\* the gap before it, or the zero fill of what is left of the buffer
RcAdvance(T) ==
    IF T.base < T.limit THEN T
    ELSE IF T.exts # <<>>
    THEN [T EXCEPT !.buf = @ \o Zeros(Head(T.exts).base - T.lba),
                   !.len = @ - Max(0, Head(T.exts).base - T.lba),
                   !.base = Head(T.exts).base,
                   !.limit = Head(T.exts).limit,
                   !.ptr = Head(T.exts).ptr,
                   !.lba = Head(T.exts).limit,
                   !.exts = Tail(@)]
    ELSE RcNextAdd([T EXCEPT !.buf = @ \o Zeros(T.len), !.len = 0])

\* lines 900-903 and 915-918: the bytes of one chunk are in the buffer
Copied(T, bytes) ==
    RcAdvance([T EXCEPT !.pc = "loop", !.buf = @ \o bytes, !.base = @ + Len(bytes),
                        !.ptr = @ + Len(bytes), !.len = @ - Len(bytes)])

\* read, lines 851-858: the extents of the request, under the object map's lock
RcReadArgs == {[lba |-> 0, sectors |-> 8], [lba |-> 4, sectors |-> 8],
               [lba |-> unit_sectors, sectors |-> 8],
               [lba |-> 2 * unit_sectors - 4, sectors |-> 8]}

RcExtents(lba, sectors, vs) ==
    [i \in 1 .. Len(vs) |-> Vals(vs[i], lba, lba + sectors)]

RcRead(t, a) ==
    /\ rc.th[t].pc \in {"idle", "done"}
    /\ rc.nreads < MaxRcReads
    /\ rc' = [rc EXCEPT !.nreads = @ + 1,
                        !.th[t] = RcAdvance([NoRcThread EXCEPT
                            !.pc = "loop", !.arg = a, !.lba = a.lba, !.len = a.sectors,
                            !.exts = RcExtents(a.lba, a.sectors,
                                ReadVisits(Omap, a.lba, a.lba + a.sectors))])]
    /\ RcUnchanged

\* lines 873-880 of one chunk
Unit(T) == [obj |-> PtrObj(T.ptr), offset |-> PtrOffset(T.ptr) \div unit_sectors]
BlkOffset(T) == PtrOffset(T.ptr) % unit_sectors
BlkTopOffset(T) ==
    Min(Min(BlkOffset(T) + T.arg.sectors, round_up(BlkOffset(T) + 1, unit_sectors)),
        BlkOffset(T) + (T.limit - T.base))

\* lines 882-890: the test, made without the mutex m
InCache(C, T) ==
    /\ C.map[Unit(T)] # -1
    /\ page_mask(BlkOffset(T), BlkTopOffset(T), unit_sectors) \subseteq C.bitmap[C.map[Unit(T)]]

\* read_numbered_object(unit.obj, cache_line, 512 * blk_base_lba, 512 *
\* unit_sectors), lines 906-908: the sectors read, and the cache line, which holds
\* whatever the allocation held past them
ObjRead(obj, blk_base_lba) == Max(0, Min(unit_sectors, RcObjSectors - blk_base_lba))
CacheLine(obj, blk_base_lba) ==
    [k \in 1 .. unit_sectors |->
        IF k <= ObjRead(obj, blk_base_lba) THEN ObjBytes(obj, blk_base_lba + k - 1)
        ELSE StaleBytes]

\* lines 905-921: a miss is served from the backend and queued for add
Missed(T, obj, blk_base_lba) ==
    Copied([T EXCEPT !.to_add = Append(@, [oo |-> [obj |-> obj, offset |-> blk_base_lba],
                                           sectors |-> ObjRead(obj, blk_base_lba),
                                           line |-> CacheLine(obj, blk_base_lba),
                                           at |-> 0])],
           SubSeq(CacheLine(obj, blk_base_lba), BlkOffset(T) + 1, BlkTopOffset(T)))

\* one pass of the loop of lines 872-917 up to the pread of a hit
RcLookup(t) ==
    /\ rc.th[t].pc = "loop"
    /\ rc' = [rc EXCEPT !.th[t] =
                IF InCache(rc, rc.th[t])
                THEN [rc.th[t] EXCEPT !.pc = "pread", !.n = rc.map[Unit(rc.th[t])],
                                      !.blk_offset = BlkOffset(rc.th[t]),
                                      !.blk_top_offset = BlkTopOffset(rc.th[t])]
                ELSE Missed(rc.th[t], Unit(rc.th[t]).obj,
                            Unit(rc.th[t]).offset * unit_sectors)]
    /\ RcUnchanged

\* lines 893-904: the pread of a hit, from slot n of the SSD
RcPread(t) ==
    /\ rc.th[t].pc = "pread"
    /\ rc' = [rc EXCEPT !.th[t] = Copied(rc.th[t],
                [i \in 1 .. (rc.th[t].blk_top_offset - rc.th[t].blk_offset) |->
                    rc.ssd[rc.th[t].n][rc.th[t].blk_offset + i - 1]])]
    /\ RcUnchanged

\* add, line 798: the chunk of the sectors to add
ObjBlkOf(A) == [obj |-> A.oo.obj, offset |-> A.oo.offset \div unit_sectors]

\* an add that does not wait for busy[cache_blk]
ClaimedNoWait(C, t, ob, blk) ==
    [C EXCEPT !.busy[blk] = TRUE,
              !.th[t].pc = "pwritev", !.th[t].ob = ob, !.th[t].cache_blk = blk,
              !.th[t].mask = C.bitmap[blk]]

\* lines 809-812: busy[cache_blk] = true and the mask read, once not busy
Claimed(C, t, ob, blk) ==
    IF C.busy[blk]
    THEN [C EXCEPT !.th[t].pc = "wait", !.th[t].ob = ob, !.th[t].cache_blk = blk]
    ELSE [C EXCEPT !.busy[blk] = TRUE,
                   !.th[t].pc = "pwritev", !.th[t].ob = ob, !.th[t].cache_blk = blk,
                   !.th[t].mask = C.bitmap[blk]]

\* add, lines 796-812: the slot of the chunk, or a free one, or none (the add
\* returns)
RcAddFind(t) ==
    /\ rc.th[t].pc = "add"
    /\ rc.m = 0
    /\ rc' = IF rc.map[ObjBlkOf(Head(rc.th[t].to_add))] # -1
             THEN Claimed(rc, t, ObjBlkOf(Head(rc.th[t].to_add)),
                          rc.map[ObjBlkOf(Head(rc.th[t].to_add))])
             ELSE IF rc.free_blks # <<>>
             THEN Claimed([rc EXCEPT !.free_blks = SubSeq(@, 1, Len(@) - 1)], t,
                          ObjBlkOf(Head(rc.th[t].to_add)),
                          rc.free_blks[Len(rc.free_blks)])
             ELSE [rc EXCEPT !.th[t] = RcNextAdd([@ EXCEPT !.to_add = Tail(@)])]
    /\ RcUnchanged

\* lines 809-810: the wait for busy[cache_blk] ends
RcAddWake(t) ==
    /\ rc.th[t].pc = "wait"
    /\ rc.m = 0
    /\ ~rc.busy[rc.th[t].cache_blk]
    /\ rc' = Claimed(rc, t, rc.th[t].ob, rc.th[t].cache_blk)
    /\ RcUnchanged

\* lines 817-828: the first page written and the number of pages
FirstPage(A) == (A.oo.offset \div SectorsPerPage) - ((A.oo.offset \div unit_sectors) * UnitPages)
PageCount(A) == Min(div_round_up(A.sectors, SectorsPerPage), UnitPages - FirstPage(A))

\* lines 830-833: the pwritev into the slot
SlotWritten(slot, A) ==
    [k \in 0 .. (unit_sectors - 1) |->
        IF /\ k >= FirstPage(A) * SectorsPerPage
           /\ k < (FirstPage(A) + PageCount(A)) * SectorsPerPage
        THEN IF A.at + k - (FirstPage(A) * SectorsPerPage) + 1 \in 1 .. Len(A.line)
             THEN A.line[A.at + k - (FirstPage(A) * SectorsPerPage) + 1]
             ELSE StaleBytes
        ELSE slot[k]]

AddAdvanced(A) ==
    [A EXCEPT !.sectors = @ - (SectorsPerPage * PageCount(A)),
              !.oo.offset = @ + (SectorsPerPage * PageCount(A)),
              !.at = @ + (SectorsPerPage * PageCount(A))]

RcAddWrite(t) ==
    /\ rc.th[t].pc = "pwritev"
    /\ rc' = [rc EXCEPT
                !.ssd[rc.th[t].cache_blk] = SlotWritten(@, Head(rc.th[t].to_add)),
                !.th[t].mask = @ \cup (FirstPage(Head(rc.th[t].to_add)) ..
                                       (FirstPage(Head(rc.th[t].to_add))
                                          + PageCount(Head(rc.th[t].to_add)) - 1)),
                !.th[t].to_add = <<AddAdvanced(Head(@))>> \o Tail(@),
                !.th[t].pc = "install"]
    /\ RcUnchanged

\* line 835: lk.lock(); m is the thread that holds the mutex, 0 when it is
\* free (the other critical sections are taken and left within one step)
RcAddLock(t) ==
    /\ rc.th[t].pc = "install"
    /\ rc.m = 0
    /\ rc' = [rc EXCEPT !.m = t]
    /\ RcUnchanged

\* lines 836-842: the slot is published under the mutex
RcAddInstall(t) ==
    /\ rc.th[t].pc = "install"
    /\ rc.m = t
    /\ rc' = [rc EXCEPT !.m = 0,
                        !.map[rc.th[t].ob] = rc.th[t].cache_blk,
                        !.bitmap[rc.th[t].cache_blk] = rc.th[t].mask,
                        !.flat_map[rc.th[t].cache_blk] = rc.th[t].ob,
                        !.busy[rc.th[t].cache_blk] = FALSE,
                        !.map_dirty = TRUE,
                        !.th[t] = RcNextAdd(@)]
    /\ RcUnchanged

\* evict(1), lines 740-751, under the mutex (do_evict, lines 996-999): j is
\* the slot the random number generator names
RcEvict(j) ==
    /\ rc.nevicts < MaxEvicts
    /\ rc.m = 0
    /\ rc' = [rc EXCEPT !.nevicts = @ + 1,
                        !.bitmap[j] = {},
                        !.flat_map[j] = NoObjBlk,
                        !.map = [ob \in RcObjBlks |->
                                   IF ob = rc.flat_map[j] THEN -1 ELSE rc.map[ob]],
                        !.free_blks = Append(@, j)]
    /\ RcUnchanged

NextRcache ==
    \/ \E t \in RcThreads : \E a \in RcReadArgs : RcRead(t, a)
    \/ \E t \in RcThreads : RcLookup(t)
    \/ \E t \in RcThreads : RcPread(t)
    \/ \E t \in RcThreads : RcAddFind(t)
    \/ \E t \in RcThreads : RcAddWake(t)
    \/ \E t \in RcThreads : RcAddWrite(t)
    \/ \E t \in RcThreads : RcAddLock(t)
    \/ \E t \in RcThreads : RcAddInstall(t)
    \/ \E j \in RcSlots : RcEvict(j)

SpecRcache == InitCrash /\ [][NextRcache]_vars

(* ----------------------- read cache: evict_thread --------------------- *)
\* the eviction thread on a cache of EvUnits units, all free at first, of
\* which rc.ev keeps free_blks.size() and map_dirty
\* add, lines 804-806 and 840: a free slot is taken and the map is dirty
EvAdd ==
    /\ rc.ev.free > 0
    /\ rc' = [rc EXCEPT !.ev.free = @ - 1, !.ev.dirty = TRUE]
    /\ RcUnchanged

\* do_evict(1), lines 996-999 and 740-751: one slot is pushed on free_blks
EvDoEvict ==
    /\ rc.ev.free < EvUnits
    /\ rc' = [rc EXCEPT !.ev.free = @ + 1]
    /\ RcUnchanged

\* ~thread_pool, lines 131-135
EvStop ==
    /\ rc.ev.running
    /\ rc' = [rc EXCEPT !.ev.running = FALSE]
    /\ RcUnchanged

\* evict_thread, lines 760-764: wait_for returns; the inner loop goes round
\* while p->running, and once it is false the thread returns.  The pass of
\* lines 766-784 follows a loop that ends only when running is false, and
\* the return of line 764 comes before it.
EvictThread ==
    /\ rc.ev.pc = "wait"
    /\ rc' = IF rc.ev.running THEN rc ELSE [rc EXCEPT !.ev.pc = "returned"]
    /\ RcUnchanged

NextEvict ==
    \/ EvAdd
    \/ EvDoEvict
    \/ EvStop
    \/ EvictThread

\* the thread is scheduled: a step it can take is taken
SpecEvict == InitCrash /\ [][NextEvict]_vars /\ WF_vars(EvictThread)

\* The write path together with the checkpoint thread, on the ring where
\* several records are in flight at once; the process does not stop and the
\* callers write one LBA.
NextCkptRun ==
    \/ \E len \in Lens : Writev(0, len, MaxJobsCkpt)
    \/ FlushThread
    \/ \E r \in reqs : NvmePadWrite(r)
    \/ \E r \in reqs : NvmeDataWrite(r)
    \/ \E r \in reqs : \E u \in UndefFront(r.page) : NotifyLocked(r, u)
    \/ \E r \in reqs : ForwardJob(r)
    \/ \E r \in reqs : FireCompletion(r)
    \/ \E timeout \in BOOLEAN : CkptThread(timeout)
    \/ DoWriteCheckpoint
    \/ CkptWriteMeta
    \/ CkptWriteSuper
    \/ CkptEnd

SpecCkptRun == Init /\ [][NextCkptRun]_vars

Next ==
    \/ \E lba \in LBAs, len \in Lens : Writev(lba, len, MaxJobsCrash)
    \/ FlushThread
    \/ \E r \in reqs : NvmePadWrite(r)
    \/ \E r \in reqs : NvmeDataWrite(r)
    \/ \E r \in reqs : \E u \in UndefFront(r.page) : NotifyLocked(r, u)
    \/ \E r \in reqs : ForwardJob(r)
    \/ \E r \in reqs : FireCompletion(r)
    \/ \E timeout \in BOOLEAN : CkptThread(timeout)
    \/ DoWriteCheckpoint
    \/ CkptWriteMeta
    \/ CkptWriteSuper
    \/ CkptEnd
    \/ Crash
    \/ \E u \in HdrReads : Recover(u)

Spec == InitCrash /\ [][Next]_vars

(* ------------------------------ reading ------------------------------- *)
\* what a one-sector read at s returns: the write cache's SSD bytes on a hit
\* (async_read yields an NVMe read at plba), the lower tiers' bytes on a miss
ReadSector(S, data, B, s) ==
    IF async_read(S, s, 1).read = 0 THEN B[s]
    ELSE IF async_read(S, s, 1).plba \in SsdSectors THEN data[async_read(S, s, 1).plba]
    ELSE Nil

Covers(j, s) == job[j].st # "none" /\ job[j].lba <= s /\ s < job[j].lba + job[j].len

\* job j completed, and every other write to sector s had completed before j
\* was submitted: j's bytes are the ones a read of s has to return
LastWriter(j, s) ==
    /\ job[j].st = "done"
    /\ Covers(j, s)
    /\ \A k \in JobIds \ {j} : Covers(k, s) => k \in job[j].before

(* ------------------------------ claims -------------------------------- *)
\* C1: once a job's completion has fired, a crash at any later moment followed
\* by a restart of the write cache leaves the job's bytes readable at its LBA
\* range, provided no later completed write overwrote them.
C1_DurableAfterRestart ==
    [][(mode = "down" /\ mode' = "run") =>
         \A j \in JobIds : \A s \in VSectors :
            LastWriter(j, s) =>
               ReadSector(wc', ssd_data', be_data', s) = <<j, s - job[j].lba>>]_vars

\* C2: for overlapping writes W1 and W2 where W1's completion fired before W2
\* was submitted, a read made once W2's completion has fired returns W2's
\* bytes for the overlapping sectors (W2 being the last writer of them).
C2_WriteOrdering ==
    \A j1 \in JobIds : \A j2 \in JobIds : \A s \in VSectors :
        (j1 \in job[j2].before /\ Covers(j1, s) /\ LastWriter(j2, s)) =>
            ReadSector(wc, ssd_data, be_data, s) = <<j2, s - job[j2].lba>>

\* the SSD sectors a forward-map extent points to meet [lo, hi)
PtrOverlaps(e, lo, hi) == e.ptr < hi /\ e.ptr + (e.limit - e.base) > lo

\* C5: for every forward-map entry mapping n sectors at lba to SSD sector
\* plba, the reverse map maps exactly the sectors [plba, plba+n) back to lba.
C5_ForwardHasReverse ==
    \A e \in wc.map : \A i \in 0 .. (e.limit - e.base - 1) :
        ExtAt(wc.rmap, e.ptr + i) = e.base + i

\* C6: every reverse-map entry (SSD sector range -> lba) has a forward-map
\* entry mapping that lba range to that same SSD sector range.
C6_ReverseHasForward ==
    \A e \in wc.rmap : \A i \in 0 .. (e.limit - e.base - 1) :
        ExtAt(wc.map, e.ptr + i) = e.base + i

\* the request send_writes has just created in this step
Created(r) == r \in reqs' /\ \A y \in reqs : y.seq # r.seq

\* C7: when allocate has evicted the page ranges it hands out (the PAD's and
\* the new record's), no forward-map entry maps an LBA to an SSD sector inside
\* them.
C7_EvictedRangeUnmapped ==
    [][\A r \in reqs' : Created(r) =>
          \A e \in wc'.map :
             /\ ~PtrOverlaps(e, r.page * SectorsPerPage, (r.page + r.n) * SectorsPerPage)
             /\ r.pad # 0 => ~PtrOverlaps(e, r.pad * SectorsPerPage, Limit * SectorsPerPage)]_vars

\* C9: total_write_pages never exceeds max_write_pages; get_room returns only
\* with its sectors/8 pages added within that bound; flush returns only in a
\* state where total_write_pages is 0.
C9_ThrottleWindow ==
    /\ [](wc.total_write_pages <= MaxWritePages)
    /\ [][\A c \in Callers :
            /\ (room[c].pc = "get_room" /\ room'[c].pc = "idle") =>
                  /\ wc'.total_write_pages =
                        wc.total_write_pages + room[c].sectors \div SectorsPerPage
                  /\ wc'.total_write_pages <= MaxWritePages
            /\ (room[c].pc = "flush" /\ room'[c].pc = "idle") =>
                  wc.total_write_pages = 0 /\ wc'.total_write_pages = 0]_vars

\* the window is full, one thread is blocked in get_room for a page, one in
\* flush, and a flush has returned before
C9_Witness ==
    /\ wc.total_write_pages = MaxWritePages
    /\ \E c \in Callers : room[c].pc = "get_room" /\ room[c].sectors >= SectorsPerPage
                            /\ room[c].held # <<>> /\ room[c].flushed
    /\ \E c \in Callers : room[c].pc = "flush"

\* what async_read promises for the request a = [offset, len] over the forward
\* map m when it returns r = [skip, read, plba]
ReadContract(m, a, r) ==
    /\ r.skip >= 0 /\ r.read >= 0
    /\ r.skip + r.read <= a.len
    /\ \A i \in 0 .. (r.skip - 1) : ExtAt(m, a.offset + i) = -1
    /\ r.read > 0 =>
          \E e \in m : /\ e.base <= a.offset + r.skip
                        /\ a.offset + r.skip + r.read <= e.limit
                        /\ r.plba = e.ptr + (a.offset + r.skip - e.base)
    /\ (r.plba # -1) <=> (r.read > 0)
    /\ (\A e \in m : ~Overlaps(e, a.offset, a.offset + a.len)) =>
          (r.skip = a.len /\ r.read = 0)
    /\ r.skip + r.read > 0

\* C8: async_read returns (skip, read, request) with skip + read <= bytes, the
\* skipped sectors unmapped, the read sectors inside one extent and fetched
\* from its plba, a request exactly when read > 0, skip = bytes when no extent
\* meets the request, skip + read > 0; and the caller's loop ends with every
\* sector of its buffer filled from where the forward map says.
C8_AsyncReadContract ==
    /\ rd.arg.len > 0 => ReadContract(wc.map, rd.arg, rd.ret)
    /\ rd.pc = "loop" => Len(rd.buf) = rd.n - rd.len /\ rd.len >= 0
    /\ rd.pc = "done" =>
          /\ Len(rd.buf) = rd.n
          /\ \A i \in 1 .. rd.n :
                rd.buf[i] = IF ExtAt(wc.map, rd.at + i - 1) = -1 THEN 0
                            ELSE ExtAt(wc.map, rd.at + i - 1)

\* a read that took several slices has returned, its last slice having both
\* skipped a gap and read from an extent that reaches past the request
C8_Witness ==
    /\ rd.pc = "done"
    /\ rd.arg.offset > rd.at
    /\ rd.ret.skip > 0 /\ rd.ret.read > 0
    /\ \E e \in wc.map : e.base < rd.at + rd.n /\ e.limit > rd.at + rd.n

Fires(j) == job'[j].fired = job[j].fired + 1

\* both NVMe writes of the record that carries job j have completed
RecordWritten(j) ==
    \E r \in reqs : j \in SeqSet(r.w) /\ r.data_done /\ r.pad_done

\* the forward map sends sector s to the payload of job k
MapsToPayload(k, s) == ExtAt(wc.map, s) = job[k].plba + (s - job[k].lba)

Maps(j) == job[j].st = "sent" /\ job'[j].st = "mapped"

\* job k is queued behind job j in the same record
BehindInRecord(j, k) ==
    \E r \in reqs : \E a \in 1 .. Len(r.w) : \E b \in 1 .. Len(r.w) :
        a < b /\ r.w[a] = j /\ r.w[b] = k

C11_NvmeErrorIsFatal ==
    [][/\ \A j \in JobIds : job[j].err => ~Maps(j) /\ ~Fires(j)
       /\ (\E j \in JobIds : job[j].err) => njobs' = njobs]_vars

\* translate::read has returned in this step
XlReadReturns == rd'.pc = "xlread" /\ xl' = xl

\* C12: translate read(offset, len) returns len and fills with zeros every
\* sector of [offset, offset+len) that the object map does not cover: before
\* the first extent, between extents, and after the last extent.
C12_ReadZeroFills ==
    [][XlReadReturns =>
         /\ rd'.n = rd'.arg.len
         /\ \A i \in 1 .. rd'.arg.len :
               ExtAt(xl.map, rd'.arg.offset + i - 1) = -1 => rd'.buf[i] = ZeroBytes]_vars

\* write_checkpoint has written the CKPT object c in this step
CkptWritten(c) == xl.ck = c /\ xl'.ck = 0 /\ xl'.otype[c] = "ckpt"

\* C13: the CKPT object that checkpoint() writes contains in its map the
\* extents of every write writev accepted before checkpoint() was called,
\* whatever the workers have done by then.
C13_CkptHoldsEveryWrite ==
    [][\A c \in XlSeqs : CkptWritten(c) =>
          \A s \in XlSectors : xl.ck_last[s] # Nil => ExtAt(xl'.ockmap[c], s) # -1]_vars

\* init has run in this step
Restarts == xl'.ninit = xl.ninit + 1

\* the highest checkpoint the super object lists, 0 when it lists none
HighestCkpt(X) == IF X.super_ckpts = <<>> THEN 0 ELSE X.super_ckpts[Len(X.super_ckpts)]

\* C14: init, after replaying the checkpoints the super object lists, applies
\* the extents of the DATA objects highest_ckpt+1, highest_ckpt+2, ... up to
\* the first object that cannot be read, so the recovered map holds every
\* extent of the DATA objects written after the last checkpoint.
C14_InitReplaysDataObjects ==
    [][Restarts =>
         \A i \in XlSeqs :
            (i > HighestCkpt(xl) /\ \A k \in (HighestCkpt(xl) + 1) .. i : IsDataObject(xl, k)) =>
               \A n \in 1 .. Len(xl.ohdr[i]) :
                  \A s \in xl.ohdr[i][n].lba .. (xl.ohdr[i][n].lba + xl.ohdr[i][n].len - 1) :
                     /\ ExtAt(xl'.map, s) # -1
                     /\ ExtAt(xl'.map, s) \div ObjStride >= i]_vars

\* C15: a sequence number handed out by batch reset or by checkpoint() differs
\* from every number handed out before in the same run, and after init
\* batch_seq is greater than the sequence number of every DATA and CKPT
\* object on the backend.
C15_SeqNeverReused ==
    /\ [](\A a \in 1 .. Len(xl.handed) : \A b \in 1 .. Len(xl.handed) :
             a # b => xl.handed[a] # xl.handed[b])
    /\ [][Restarts => \A b \in XlSeqs : xl.otype[b] # "none" => xl'.batch_seq > b]_vars

\* the in-memory write cache a construction from the SSD as it stands arrives
\* at (the checkpoint it may write changes none of map, rmap, next, oldest)
Reconstructed(u) ==
    roll_log_forward(Loaded(FreshWc(ssd_super, wc.rj, wc.evj)),
                     be_data, ssd_hdr, ssd_data, u).S

SameRecovered(A, B) ==
    A.map = B.map /\ A.rmap = B.rmap /\ A.next = B.next /\ A.oldest = B.oldest

Recovers == mode = "down" /\ mode' = "run" /\ wc'.fault = "none"

\* C16: write-cache recovery is idempotent: once the constructor has
\* recovered from the SSD (read_map_entries, roll_log_forward and the
\* checkpoint it may write), a crash with no write in between and a second
\* construction give the same forward map, reverse map, next and oldest.
C16_RecoveryIdempotent ==
    [][Recovers => \A u \in HdrReads : SameRecovered(wc', Reconstructed(u)')]_vars

\* read() has returned: the buffer is the caller's
RcReturned(T) == T.pc = "done"

\* C17: in every interleaving of read-cache add, read and evict, the bytes
\* read() returns for a sector the object map maps to (object, offset) are the
\* backend object's bytes at that offset, and a bit i set in bitmap[slot]
\* means that page i of the slot holds the data of the chunk mapped to the
\* slot.
C17_ReadCacheBytes ==
    /\ \A t \in RcThreads : RcReturned(rc.th[t]) =>
          \A i \in 1 .. rc.th[t].arg.sectors :
              ExtAt(Omap, rc.th[t].arg.lba + i - 1) # -1 =>
                 rc.th[t].buf[i] = ObjBytes(PtrObj(ExtAt(Omap, rc.th[t].arg.lba + i - 1)),
                                            PtrOffset(ExtAt(Omap, rc.th[t].arg.lba + i - 1)))
    /\ \A ob \in RcObjBlks : rc.map[ob] # -1 =>
          \A k \in 0 .. (unit_sectors - 1) :
              (/\ k \div SectorsPerPage \in rc.bitmap[rc.map[ob]]
               /\ (ob.offset * unit_sectors) + k < RcObjSectors) =>
                 rc.ssd[rc.map[ob]][k] = ObjBytes(ob.obj, (ob.offset * unit_sectors) + k)

\* write_checkpoint has just gathered its lists under the mutex
CkptGathers == ckpt.pc = "idle" /\ ckpt'.pc = "meta"

\* page i lies in [oldest, next_acked_page) of the ring
InValidRange(S, i) ==
    IF S.oldest <= S.next_acked_page
    THEN S.oldest <= i /\ i < S.next_acked_page
    ELSE i >= S.oldest \/ i < S.next_acked_page

\* the record of request r is not yet whole on the SSD
InFlight(r) == ~r.data_done

\* C18: the record lengths write_checkpoint persists are exactly the HDR
\* records in the valid range [oldest, next_acked_page) of the ring, the next
\* it persists is next_acked_page, and no record whose SSD write is still in
\* flight is in the list, wrapped ring or not, writes outstanding or not.
C18_CkptLengthsValidRange ==
    [][CkptGathers =>
         /\ ckpt'.l_buf = {<<i, wc.cb[i].n_pages>> :
                              i \in {p \in RingRange : wc.cb[p].type = "HDR"
                                                        /\ InValidRange(wc, p)}}
         /\ ckpt'.super_copy.next = wc.next_acked_page
         /\ \A r \in reqs : InFlight(r) => \A l \in ckpt'.l_buf : l[1] # r.page]_vars

\* the half the superblock on SSD references holds lists of the sizes the
\* superblock gives; a superblock that references no half gives no entries
SuperRefsWhole ==
    IF ssd_super.map_start \in DOMAIN ssd_meta
    THEN /\ Cardinality(ssd_meta[ssd_super.map_start].map) = ssd_super.map_entries
         /\ Cardinality(ssd_meta[ssd_super.map_start].lens) = ssd_super.len_entries
    ELSE ssd_super.map_entries = 0 /\ ssd_super.len_entries = 0

AllExited ==
    /\ ~xl.running
    /\ xl.idle = 0
    /\ \A b \in XlSeqs : xl.wk[b] \notin {"taken", "written"}

\* C20: when the translation thread pool is shut down, the workers write
\* every batch queued before the shutdown and only then exit: no batch taken
\* from the queue is dropped, no worker takes an element from the empty
\* queue, and the queue is empty once every worker has returned.
C20_ShutdownDrainsQueue ==
    /\ xl.dropped = {}
    /\ ~xl.empty_front
    /\ AllExited => xl.q = <<>>

\* the batch of object b has been applied to the object map: by a worker, or
\* by init reading the object
Applied(b) ==
    /\ xl.info[b].type = "data"
    /\ xl.wk[b] \in {"done", "none"}

MappedTo(b) ==
    Cardinality({s \in XlSectors : ExtAt(xl.map, s) # -1
                                    /\ ExtAt(xl.map, s) \div ObjStride = b})

\* C21: for every DATA object in object_info whose batch has been applied to
\* the object map, live equals the number of sectors the object map maps to
\* the object, and no live count drops below zero.
C21_LiveSectors ==
    /\ \A b \in XlSeqs : Applied(b) => xl.info[b].live = MappedTo(b)
    /\ \A b \in XlSeqs : xl.info[b].live >= 0

\* page q holds a record before and after the step: it was not evicted, and
\* it is not part of a record or PAD that send_writes has just made
KeptPage(q) ==
    /\ q \in RingRange
    /\ wc.cb[q].type # "NONE" /\ wc'.cb[q].type # "NONE"
    /\ \A r \in reqs' : Created(r) =>
          /\ ~(r.page <= q /\ q < r.page + r.n)
          /\ r.pad # 0 => q < r.pad

\* C22: evict removes from the forward map only entries whose SSD location
\* lies inside the journal records it evicts: an LBA whose entry points into a
\* record that stays in the ring keeps a forward-map entry when an older
\* record that held its previous contents is evicted.
C22_EvictKeepsNewerEntries ==
    [][(mode = "run" /\ mode' = "run" /\ wc'.fault = "none") =>
          \A s \in VSectors :
             (/\ ExtAt(wc.map, s) # -1
              /\ KeptPage(ExtAt(wc.map, s) \div SectorsPerPage)) =>
                 ExtAt(wc'.map, s) # -1]_vars

\* a worker applies batch b to the object map (worker_thread, lines 403-419)
WorkerApplies(b) == xl.wk[b] = "written" /\ xl'.wk[b] = "done"

\* the sectors of the first n entries of a batch
RECURSIVE EntrySectors(_, _)
EntrySectors(es, n) == IF n = 0 THEN 0 ELSE es[n].len + EntrySectors(es, n - 1)

\* sector s of the volume is written again by an entry after the i-th
LaterEntryCovers(es, i, s) ==
    \E j \in (i + 1) .. Len(es) : es[j].lba <= s /\ s < es[j].lba + es[j].len

\* no batch is open, queued or held by a worker
NoBatchPending ==
    /\ xl.q = <<>>
    /\ xl.cur = 0 \/ xl.entries[xl.cur] = <<>>
    /\ \A b \in XlSeqs : xl.wk[b] \in {"none", "done"}

\* C23: after a worker has written batch b and applied it, the object map
\* maps the LBA range of b's i-th entry to the object b at offset
\* hdr_sectors plus the sectors of the entries before it; and init rebuilds
\* the same map from the objects' headers, so that the map of a run in which
\* no batch is pending and the map recovered after its restart agree.
C23_WorkerMapMatchesInit ==
    [][/\ \A b \in XlSeqs : WorkerApplies(b) =>
             \A i \in 1 .. Len(xl.entries[b]) :
                \A s \in xl.entries[b][i].lba ..
                         (xl.entries[b][i].lba + xl.entries[b][i].len - 1) :
                   ~LaterEntryCovers(xl.entries[b], i, s) =>
                      ExtAt(xl'.map, s) =
                         ObjOffset(b, XlHdrSectors + EntrySectors(xl.entries[b], i - 1)
                                      + (s - xl.entries[b][i].lba))
       /\ (Restarts /\ NoBatchPending) =>
             \A s \in XlSectors : ExtAt(xl'.map, s) = ExtAt(xl.map, s)]_vars

\* the sequence number of the header of the outstanding record that starts
\* at page p, 0 when no outstanding record starts there
InFlightSeqAt(p) ==
    IF \E r \in reqs : r.pad = p /\ <<r.pad, r.n_pad>> \in SeqSet(wc.outstanding)
    THEN (CHOOSE r \in reqs : r.pad = p /\ <<r.pad, r.n_pad>> \in SeqSet(wc.outstanding)).pad_seq
    ELSE IF \E r \in reqs : r.page = p /\ <<r.page, r.n>> \in SeqSet(wc.outstanding)
    THEN (CHOOSE r \in reqs : r.page = p /\ <<r.page, r.n>> \in SeqSet(wc.outstanding)).seq
    ELSE 0

\* C24: the superblock write_checkpoint persists stores, as seq, the sequence
\* number of the record header that starts at the stored next, or the number
\* the next header will receive when no record starts there, also when
\* records are in flight while the checkpoint is taken.
C24_SuperSeqMatchesNext ==
    [][CkptGathers =>
          ckpt'.super_copy.seq =
             IF InFlightSeqAt(ckpt'.super_copy.next) # 0
             THEN InFlightSeqAt(ckpt'.super_copy.next)
             ELSE wc.sequence]_vars

\* C25: super->next == super->oldest holds only when the ring contains no
\* records: allocate and evict never leave the ring full with next equal to
\* oldest.
C25_NextEqOldestMeansEmpty ==
    (Running /\ wc.next = wc.oldest) =>
        \A p \in RingRange : wc.cb[p].type = "NONE"

\* page p lies in the range the allocation A of n pages hands out or in the
\* range it pads
HandedOut(A, n, p) ==
    \/ A.val <= p /\ p < A.val + n
    \/ A.pad # 0 /\ A.pad <= p /\ p < Limit

\* what allocate(n) has to yield in the state S of the ring
AllocateContract(S, n, A) ==
    /\ Base <= A.val /\ A.val + n <= Limit
    /\ IF Limit - S.next < n
       THEN A.pad = S.next /\ A.n_pad = Limit - S.next /\ A.val = Base
       ELSE A.val = S.next /\ A.pad = 0 /\ A.n_pad = 0
    /\ A.S.next = IF A.val + n = Limit THEN Base ELSE A.val + n
    /\ \A p \in RingRange : HandedOut(A, n, p) => A.S.cb[p].type = "NONE"

InRegion(S, p) ==
    IF S.oldest <= S.next
    THEN S.oldest <= p /\ p < S.next
    ELSE p >= S.oldest \/ p < S.next

\* C27: every cache_blocks cell inside the ring region [oldest, next) (mod N)
\* has type HDR, DATA or PAD, and every cell outside it has type NONE.  With
\* next = oldest the region is read as empty, or as the whole ring when every
\* cell is in use.
C27_CellsMatchRegion ==
    Running =>
       \/ wc.next = wc.oldest /\ \A p \in RingRange : wc.cb[p].type \in {"HDR", "DATA", "PAD"}
       \/ \A p \in RingRange :
             IF InRegion(wc, p) THEN wc.cb[p].type \in {"HDR", "DATA", "PAD"}
             ELSE wc.cb[p].type = "NONE"

\* a notify has run its notify_complete calls and records are still
\* outstanding
CompletesSome ==
    /\ mode = "run" /\ wc'.fault = "none"
    /\ Len(wc'.outstanding) < Len(wc.outstanding)
    /\ wc'.outstanding # <<>>

\* the smallest start page among the pairs of q
MinPage(q) ==
    CHOOSE x \in {q[i][1] : i \in 1 .. Len(q)} : \A i \in 1 .. Len(q) : x <= q[i][1]

\* every record lying before next_acked_page, in [oldest, next_acked_page),
\* has completed its SSD write
AckedAreWritten(S, rs) ==
    \A r \in rs :
       /\ (r.pc = "io" /\ ~r.data_done) => ~InValidRange(S, r.page)
       /\ (r.pc = "io" /\ ~r.pad_done) => ~InValidRange(S, r.pad)

UnlockedCall == \E r \in reqs : r.pc = "nc"

\* no assert(!m.try_lock()) has failed and no notify_complete is about to run
\* without the mutex; notify_complete has found its pair
MutexHeldAtCalls ==
    /\ ~UnlockedCall
    /\ wc.fault \notin {"assert_mutex_held", "assert_outstanding"}

C30_ReadNotOverwritten ==
    (rd.pc = "done" /\ rd.want # <<>>) => rd.buf = rd.want

\* the test of lines 606-608 on the header that is on the SSD at page p
ValidHdr(hdrs, p, seq) ==
    /\ p \in RingRange
    /\ hdrs[p].type \in {"DATA", "PAD"}
    /\ hdrs[p].seq = seq

\* a step of the constructor
RecoverStep == mode = "down" /\ mode' = "run"

\* C31: roll_log_forward applies the journal records in order from the
\* persisted next and stops only at a header with a wrong magic, a type that
\* is neither DATA nor PAD, or a sequence number other than the expected one:
\* the header on the SSD where the replay stopped is not a valid next record;
\* and it writes a checkpoint when it applied a record.
C31_ReplayStopsAtInvalid ==
    [][(RecoverStep /\ wc'.fault = "none") =>
         /\ ~ValidHdr(ssd_hdr, wc'.next, wc'.sequence)
         /\ (wc'.sequence > ssd_super.seq => ssd_super'.seq = wc'.sequence)]_vars

\* C32: when roll_log_forward has run, super->next lies within [base, limit)
\* (a replayed record that ends exactly at limit wraps it to base) and no
\* cache_blocks cell outside [0, limit - base) has been written, a replayed
\* PAD record included.
C32_ReplayInBounds ==
    [][(RecoverStep /\ ssd_super.next \in RingRange) =>
         /\ wc'.next \in RingRange
         /\ ~wc'.oob
         /\ wc'.fault # "cache_blocks_out_of_bounds"]_vars

\* C33: a checkpoint sequence number is published (last_ckpt, which make_hdr
\* embeds in the headers of DATA objects) only once the CKPT object of that
\* number is completely written: last_ckpt, and the number embedded in every
\* DATA object on the backend, is 0 (none) or names a CKPT object that exists.
C33_PublishedCkptWritten ==
    /\ xl.last_ckpt # 0 => xl.otype[xl.last_ckpt] = "ckpt"
    /\ \A b \in XlSeqs :
         (xl.otype[b] = "data" /\ xl.ock[b] # 0) => xl.otype[xl.ock[b]] = "ckpt"

\* write_numbered_object of object o has completed
ObjectWritten(X, o) == o \in XlSeqs /\ X.otype[o] = "data" /\ X.wk[o] \in {"written", "done"}

Batches == {b \in SeqSet(xl.handed) : xl.info[b].type # "ckpt" /\ xl.ck # b}

\* the places of batch b that hold it: current_batch, the workers' queue
\* (once for each time it is queued), a worker between get_locked and
\* batches.push, the free stack
PlacesOf(b) ==
    (IF xl.cur = b THEN 1 ELSE 0)
      + Cardinality({i \in 1 .. Len(xl.q) : xl.q[i] = b})
      + (IF xl.wk[b] \in {"taken", "written"} THEN 1 ELSE 0)
      + (IF xl.wk[b] = "done" THEN 1 ELSE 0)

\* C35: every batch is in exactly one of the current batch, the worker
\* queue, the hands of one worker and the free stack; it never holds more
\* than its capacity; and it is on the free stack only when its object has
\* been written and its map update made.
C35_BatchInOnePlace ==
    \A b \in Batches :
        /\ PlacesOf(b) = 1
        /\ Len(xl.bufs[b]) <= BatchMax
        /\ xl.wk[b] = "done" => (xl.otype[b] = "data" /\ b \notin xl.in_mem)

\* C36: no thread acquires the translation mutex while it holds the
\* object-map lock (in writev, read, worker_thread, checkpoint and
\* write_checkpoint, flush), and so the operations do not deadlock on the
\* two locks: whenever a thread is inside an operation, some thread can take
\* its next step.
C36_MutexBeforeMapLock ==
    /\ \A t \in XlThreads : LockNext(xl, t) = "+m" => ~HoldsMap(xl, t)
    /\ (\E t \in XlThreads : xl.lk[t].op # "idle") =>
          \E t \in XlThreads : xl.lk[t].op # "idle" /\ CanStep(xl, t)

\* write_checkpoint holds the map lock while another thread holds the
\* translation mutex and waits for the map lock
C36_Witness ==
    \E t, u \in XlThreads :
        /\ xl.lk[t].op = "checkpoint" /\ HoldsMap(xl, t)
        /\ HoldsM(xl, u) /\ LockNext(xl, u) \in {"+map", "+maps"}

\* an add holds slot s between lines 811 and 838
InAdd(s) ==
    \E t \in RcThreads : rc.th[t].pc \in {"wait", "pwritev", "install"} /\ rc.th[t].cache_blk = s

\* C37: in the read cache the hash maps key k to slot s exactly when
\* flat_map[s] = k, no two keys map to one slot, no slot is twice in the
\* free list, and a slot is in the free list exactly when it is empty
\* (flat_map[s] = (0,0), bitmap[s] = 0) and no key maps to it; a slot an add
\* has taken and not yet installed is the one exception to the last part.
C37_RcacheMapsAgree ==
    /\ \A k \in RcObjBlks : \A s \in RcSlots : rc.map[k] = s <=> rc.flat_map[s] = k
    /\ \A k1, k2 \in RcObjBlks : (k1 # k2 /\ rc.map[k1] # -1) => rc.map[k1] # rc.map[k2]
    /\ \A i, j \in 1 .. Len(rc.free_blks) : i # j => rc.free_blks[i] # rc.free_blks[j]
    /\ \A s \in RcSlots :
         ~InAdd(s) =>
            ((\E i \in 1 .. Len(rc.free_blks) : rc.free_blks[i] = s)
               <=> (/\ rc.flat_map[s] = NoObjBlk
                    /\ rc.bitmap[s] = {}
                    /\ \A k \in RcObjBlks : rc.map[k] # s))

\* thread t makes the lookup of lines 882-890 in this step
LookupStep(t) == rc.th[t].pc = "loop" /\ rc'.th[t] # rc.th[t]

\* C38: every access to the read cache's hash, flat_map, bitmap, free list
\* and busy flags is made with the read-cache mutex held: a thread that looks
\* a unit up in the hash and tests its bitmap in read holds the mutex.
C38_LookupHoldsMutex ==
    [][\A t \in RcThreads : LookupStep(t) => rc.m = t]_vars

\* C39: while the eviction thread runs, whenever fewer than units/16 slots
\* are free the thread eventually makes an eviction pass that brings the
\* number of free slots to units/4.
C39_EvictionReplenishes ==
    (rc.ev.running /\ rc.ev.free < EvUnits \div 16)
        ~> (rc.ev.free >= EvUnits \div 4 \/ ~rc.ev.running)

\* the adds between busy[slot] = true (line 811) and busy[slot] = false
\* (line 839) for slot s
AddsWriting(s) ==
    {t \in RcThreads : rc.th[t].pc \in {"pwritev", "install"} /\ rc.th[t].cache_blk = s}

\* C40: for every read-cache slot at most one add is between setting
\* busy[slot] and clearing it, so two pwritev calls to one slot never
\* overlap, and the flag is set for as long as that add is there: an add that
\* finds it set waits.
C40_OneAddPerSlot ==
    \A s \in RcSlots :
        /\ Cardinality(AddsWriting(s)) <= 1
        /\ AddsWriting(s) # {} => rc.busy[s]

\* one add is writing a slot while another add waits for the same slot
C40_Witness ==
    \E t, u \in RcThreads :
        /\ rc.th[t].pc = "pwritev"
        /\ rc.th[u].pc = "wait" /\ rc.th[u].cache_blk = rc.th[t].cache_blk

\* C3: once translate writev has returned, a translate read of the range
\* returns the bytes written (those of the last writev that covered each
\* sector), whether or not the batch holding them has been written to the
\* backend as an object, and whatever the value of nocache.
C3_ReadYourWrites ==
    \A s \in XlSectors : xl.last[s] # Nil => XlRead(xl, s) = xl.last[s]

====
